---- MODULE Spec2Model ----
(***************************************************************************)
(* Model of the marketplace agents: BaseAgent.process with its retry loop  *)
(* and statistics (src/agents/base_agent.py), ChatModeratorAgent           *)
(* (src/agents/chat_moderator.py) and PriceSuggestorAgent with its two     *)
(* fallback tiers (src/agents/price_suggestor.py).                         *)
(*                                                                         *)
(* Python values are tagged records: IntV(n), NaN, StrV(s), NumV(c) (a     *)
(* JSON number in hundredths), ListV(seq).  A mapping is a function whose  *)
(* DOMAIN is the set of keys present.  A raise is the record Err(e), a     *)
(* normal return Ok(v).  Wall-clock time (processing_time,                 *)
(* total_processing_time) is not modelled.                                 *)
(***************************************************************************)
EXTENDS Integers, Sequences, FiniteSets, TLC

VARIABLES
    execution_count,   \* BaseAgent.execution_count, per agent instance
    success_count,     \* BaseAgent.success_count, per agent instance
    df,                \* DataProcessor.df: "None" until load_data ran
    uuid_counter,      \* number of uuid4() values drawn so far
    pc,                \* position of the process call in progress, or "idle"/"done"
    agent,             \* the agent whose process is running
    data,              \* the input mapping of the call
    attempt,           \* loop variable of _call_llm_with_retry
    last_exception,    \* last_exception of _call_llm_with_retry
    response,          \* text returned by _call_llm_with_retry
    exception,         \* the exception being handled / raised by process
    result,            \* the mapping returned by process
    outcome,           \* "none", "returned" or "raised"
    calls,             \* number of process calls started
    trace,             \* history: generate / sleep events of the call in progress
    validation,        \* history: "none", "passed" or "failed" for the call in progress
    parsing,           \* history: "none", "passed" or "failed" for the call in progress
    completed,         \* history: per agent, calls completed on the success / failure path
    exec_at_call,      \* history: execution_count of the agent when the call started
    issued_ids,        \* history: per agent, execution_ids of the results returned so far
    id_reused,         \* history: the result just returned carries an id issued before
    threads,           \* interleaved calls: per thread, its position and the value it read
    gateway,           \* a deterministic gateway: per agent and input, what generate does
    earlier            \* history: per agent and input, the payload returned the first time

vars == <<execution_count, success_count, df, uuid_counter, pc, agent, data, attempt,
          last_exception, response, exception, result, outcome, calls, trace,
          validation, parsing, completed, exec_at_call, issued_ids, id_reused,
          threads, gateway, earlier>>

\* the variables that only the specifications RaceSpec and RepeatSpec use
auxvars == <<threads, gateway, earlier>>

callvars == <<agent, data, attempt, last_exception, response, exception, result, outcome>>

MaxCalls == 3

max_retries == 2

Chat == "ChatModeratorAgent"
Price == "PriceSuggestorAgent"
Agents == {Chat, Price}

None == [ty |-> "None"]
IntV(n) == [ty |-> "int", n |-> n]
NaN == [ty |-> "float", nan |-> TRUE]
StrV(s) == [ty |-> "str", s |-> s]
\* a float near c/100: the double nearest to c/100, moved by ulps units in the last place
FloatV(c, u) == [ty |-> "num", x100 |-> c, ulps |-> u]
NumV(c) == FloatV(c, 0)
ListV(items) == [ty |-> "list", items |-> items]
DictV(m) == [ty |-> "dict", m |-> m]

\* str(v)
PyStr(v) == IF v.ty = "str" THEN v ELSE [ty |-> "str", of |-> v]

\* truthiness of a value: 0, "" and None are falsy, NaN is truthy
Truthy(v) ==
    CASE v.ty = "int" -> v.n # 0
      [] v.ty = "str" -> v.s # ""
      [] v.ty = "None" -> FALSE
      [] OTHER -> TRUE

\* isinstance(v, (int, float))
IsNumber(v) == v.ty \in {"int", "float", "num"}

FloatLess(a, b) == a.x100 < b.x100 \/ (a.x100 = b.x100 /\ a.ulps < b.ulps)
\* variant of FloatMax that keeps its first argument
FloatMax_TakesFirst(a, b) == a
\* max(a, b)
FloatMax(a, b) == IF FloatLess(a, b) THEN b ELSE a
FloatMin(a, b) == IF FloatLess(b, a) THEN b ELSE a

\* The double sums of the score weights that are not the double nearest to
\* the decimal sum: <<x100, ulps, added weight, ulps of the sum>>
InexactSums ==
    { <<10, 0, 20, 1>>, <<20, 0, 10, 1>>, <<20, 0, 40, 1>>, <<30, 1, 40, 1>>,
      <<40, 0, 20, 1>>, <<70, 0, 20, -1>>, <<70, 1, 20, 1>>, <<70, 0, 10, -1>>,
      <<80, -1, 10, -1>>, <<90, -1, 10, -1>>, <<60, 1, 10, 1>>, <<60, 1, 30, 1>>,
      <<30, 1, 30, 1>> }

\* x + w/100 in double arithmetic, for the sums of a score and a weight
FloatAdd(x, w) ==
    LET hit == { t \in InexactSums : t[1] = x.x100 /\ t[2] = x.ulps /\ t[3] = w } IN
    FloatV(x.x100 + w, IF hit = {} THEN 0 ELSE (CHOOSE t \in hit : TRUE)[4])

Ok(v) == [ok |-> TRUE, v |-> v]
Err(e) == [ok |-> FALSE, exc |-> e]

ValueError(msg) == [type |-> "ValueError", msg |-> msg]
KeyError(key) == [type |-> "KeyError", msg |-> key]
TypeError(msg) == [type |-> "TypeError", msg |-> msg]

Without(d, k) == [f \in DOMAIN d \ {k} |-> d[f]]
With(d, k, v) == [f \in DOMAIN d \cup {k} |-> IF f = k THEN v ELSE d[f]]

(***************************************************************************)
(* Text: the replies of the generation gateway.                            *)
(***************************************************************************)
EmptyText == [kind |-> "empty"]
BlankText == [kind |-> "blank"]
ProseText == [kind |-> "prose"]
JsonText(wrap, obj) == [kind |-> "json", wrap |-> wrap, obj |-> obj]

\* str.strip(): whitespace-only text becomes the empty text
Strip(text) == IF text.kind = "blank" THEN EmptyText ELSE text

\* truthiness of a str
TextTruthy(text) == text.kind # "empty"

\* BaseLLMClient.extract_json followed by json.loads: the object between the
\* first "{" and the last "}" (a code fence around it is outside that span);
\* text without braces is not JSON
extract_json_loads(text) ==
    IF text.kind = "json" THEN Ok(text.obj)
    ELSE Err([type |-> "JSONDecodeError", msg |-> "Expecting value"])

(***************************************************************************)
(* ChatModeratorAgent                                                      *)
(***************************************************************************)
Chars(n, c) == [i \in 1..n |-> c]
IsSpace(c) == c \in {" ", "\n", "\t"}

RECURSIVE LStrip(_)
LStrip(s) == IF s # <<>> /\ IsSpace(Head(s)) THEN LStrip(Tail(s)) ELSE s

RECURSIVE RStrip(_)
RStrip(s) == IF s # <<>> /\ IsSpace(s[Len(s)]) THEN RStrip(SubSeq(s, 1, Len(s) - 1)) ELSE s

StripChars(s) == RStrip(LStrip(s))

MaxMessageLen == 1000

\* variant of Chat_validate_input that rejects a message of exactly the
\* maximal length
Chat_validate_input_RejectsAtLimit(d) ==
    IF "message" \notin DOMAIN d THEN Err(ValueError("Missing required field: message"))
    ELSE IF d["message"].ty # "str" THEN Err(ValueError("Message must be a string"))
    ELSE IF Len(StripChars(d["message"].s)) = 0 THEN Err(ValueError("Message cannot be empty"))
    ELSE IF Len(d["message"].s) >= MaxMessageLen
         THEN Err(ValueError("Message too long (max 1000 characters)"))
    ELSE Ok(None)

Chat_validate_input(d) ==
    IF "message" \notin DOMAIN d THEN Err(ValueError("Missing required field: message"))
    ELSE IF d["message"].ty # "str" THEN Err(ValueError("Message must be a string"))
    ELSE IF Len(StripChars(d["message"].s)) = 0 THEN Err(ValueError("Message cannot be empty"))
    ELSE IF Len(d["message"].s) > MaxMessageLen
         THEN Err(ValueError("Message too long (max 1000 characters)"))
    ELSE Ok(None)

(***************************************************************************)
(* ChatModeratorAgent: the pre-analysis of _generate_prompt                *)
(***************************************************************************)
IsDigit(c) == c \in {"0", "1", "2", "3", "4", "5", "6", "7", "8", "9"}

UpperCase ==
    <<"A", "B", "C", "D", "E", "F", "G", "H", "I", "J", "K", "L", "M",
      "N", "O", "P", "Q", "R", "S", "T", "U", "V", "W", "X", "Y", "Z">>
LowerCase ==
    <<"a", "b", "c", "d", "e", "f", "g", "h", "i", "j", "k", "l", "m",
      "n", "o", "p", "q", "r", "s", "t", "u", "v", "w", "x", "y", "z">>

IsLetter(c) == \E k \in DOMAIN UpperCase : c = UpperCase[k] \/ c = LowerCase[k]

\* str.lower(), character by character
LowerChar(c) ==
    IF \E k \in DOMAIN UpperCase : c = UpperCase[k]
    THEN LowerCase[CHOOSE k \in DOMAIN UpperCase : c = UpperCase[k]]
    ELSE c
ToLower(s) == [i \in 1..Len(s) |-> LowerChar(s[i])]

\* keyword in message: the keyword is a substring
Contains(s, w) == \E i \in 0..(Len(s) - Len(w)) : SubSeq(s, i + 1, i + Len(w)) = w

Repeat(tok, n) == [i \in 1..n |-> tok]

\* self.phone_patterns, token by token
phone_patterns ==
    << <<"\\b">> \o Repeat("\\d", 10) \o <<"\\b">>,
       <<"\\b", "\\+", "9", "1", "[\\s-]?">> \o Repeat("\\d", 10) \o <<"\\b">>,
       <<"\\b", "9", "1", "[\\s-]?">> \o Repeat("\\d", 10) \o <<"\\b">>,
       <<"\\b">> \o Repeat("\\d", 3) \o <<"[\\s-]">> \o Repeat("\\d", 3) \o <<"[\\s-]">>
           \o Repeat("\\d", 4) \o <<"\\b">>,
       <<"\\b">> \o Repeat("\\d", 5) \o <<"[\\s-]">> \o Repeat("\\d", 5) \o <<"\\b">> >>

\* self.abusive_keywords
abusive_keywords ==
    << <<"f", "r", "a", "u", "d">>,
       <<"s", "c", "a", "m">>,
       <<"c", "h", "e", "a", "t">>,
       <<"f", "a", "k", "e">>,
       <<"s", "t", "u", "p", "i", "d">>,
       <<"i", "d", "i", "o", "t">>,
       <<"f", "o", "o", "l">>,
       <<"u", "r", "g", "e", "n", "t">>,
       <<"h", "u", "r", "r", "y">>,
       <<"c", "a", "s", "h", " ", "o", "n", "l", "y">>,
       <<"a", "d", "v", "a", "n", "c", "e", " ", "p", "a", "y", "m", "e", "n", "t">>,
       <<"w", "e", "s", "t", "e", "r", "n", " ", "u", "n", "i", "o", "n">>,
       <<"m", "o", "n", "e", "y", " ", "g", "r", "a", "m">>,
       <<"l", "o", "t", "t", "e", "r", "y">>,
       <<"w", "i", "n", "n", "e", "r">>,
       <<"c", "o", "n", "g", "r", "a", "t", "u", "l", "a", "t", "i", "o", "n", "s">>,
       <<"s", "e", "l", "e", "c", "t", "e", "d">> >>

\* self.external_platforms
external_platforms ==
    << <<"w", "h", "a", "t", "s", "a", "p", "p">>,
       <<"t", "e", "l", "e", "g", "r", "a", "m">>,
       <<"f", "a", "c", "e", "b", "o", "o", "k">>,
       <<"i", "n", "s", "t", "a", "g", "r", "a", "m">>,
       <<"e", "m", "a", "i", "l">>,
       <<"g", "m", "a", "i", "l">>,
       <<"y", "a", "h", "o", "o">>,
       <<"h", "o", "t", "m", "a", "i", "l">>,
       <<"c", "a", "l", "l", " ", "m", "e">>,
       <<"t", "e", "x", "t", " ", "m", "e">>,
       <<"d", "m", " ", "m", "e">>,
       <<"m", "e", "s", "s", "a", "g", "e", " ", "m", "e">> >>

\* \w of the regular expressions
IsWord(c) == IsDigit(c) \/ IsLetter(c) \/ c = "_"

\* \b at the place before s[i]: one side is a word character, the other is not
WordBoundary(s, i) ==
    (i > 1 /\ IsWord(s[i - 1])) # (i <= Len(s) /\ IsWord(s[i]))

\* the tokens of pat from the j-th on match s from its i-th character on
RECURSIVE MatchFrom(_, _, _, _)
MatchFrom(s, i, pat, j) ==
    IF j > Len(pat) THEN TRUE
    ELSE CASE pat[j] = "\\b" -> WordBoundary(s, i) /\ MatchFrom(s, i, pat, j + 1)
           [] pat[j] = "\\d" ->
                  i <= Len(s) /\ IsDigit(s[i]) /\ MatchFrom(s, i + 1, pat, j + 1)
           [] pat[j] = "[\\s-]" ->
                  /\ i <= Len(s) /\ (IsSpace(s[i]) \/ s[i] = "-")
                  /\ MatchFrom(s, i + 1, pat, j + 1)
           [] pat[j] = "[\\s-]?" ->
                  \/ /\ i <= Len(s) /\ (IsSpace(s[i]) \/ s[i] = "-")
                     /\ MatchFrom(s, i + 1, pat, j + 1)
                  \/ MatchFrom(s, i, pat, j + 1)
           [] pat[j] = "\\+" ->
                  i <= Len(s) /\ s[i] = "+" /\ MatchFrom(s, i + 1, pat, j + 1)
           [] OTHER -> i <= Len(s) /\ s[i] = pat[j] /\ MatchFrom(s, i + 1, pat, j + 1)

\* re.search(pattern, s)
Search(pat, s) == \E i \in 1..(Len(s) + 1) : MatchFrom(s, i, pat, 1)

\* re.sub(r'[^\d\+\s-]', '', message)
CleanMessage(s) ==
    LET Keep(c) == IsDigit(c) \/ c = "+" \/ IsSpace(c) \/ c = "-" IN SelectSeq(s, Keep)

detect_phone_number(message) ==
    \E k \in DOMAIN phone_patterns : Search(phone_patterns[k], CleanMessage(message))

detect_abusive_content(message) ==
    \E k \in DOMAIN abusive_keywords : Contains(ToLower(message), abusive_keywords[k])

detect_external_platforms(message) ==
    \E k \in DOMAIN external_platforms : Contains(ToLower(message), external_platforms[k])

(***************************************************************************)
(* ChatModeratorAgent: parsing                                             *)
(***************************************************************************)
ChatRequiredFields ==
    <<"status", "reason", "confidence", "detected_elements", "severity", "action_recommended">>

valid_statuses == {"safe", "abusive", "phone_detected", "policy_violation"}
valid_severities == {"low", "medium", "high"}
valid_actions == {"none", "warn", "block", "review"}

\* first element of the sequence fields that is not a key of m, or "" when all are
RECURSIVE FirstMissing(_, _)
FirstMissing(fields, m) ==
    IF fields = <<>> THEN ""
    ELSE IF Head(fields) \notin DOMAIN m THEN Head(fields)
    ELSE FirstMissing(Tail(fields), m)

\* the negation of  not isinstance(v, (int, float)) or v < 0 or v > 1  for a
\* JSON value; NaN passes, every comparison with it being false
ConfidenceOk(v) ==
    \/ v.ty = "num" /\ ~FloatLess(v, NumV(0)) /\ ~FloatLess(NumV(100), v)
    \/ v.ty = "int" /\ v.n \in {0, 1}
    \/ v.ty = "float"

\* x in [..] for a JSON value x and a list of strings
InStrings(v, S) == v.ty = "str" /\ v.s \in S

Chat_parse_checks(obj) ==
    IF FirstMissing(ChatRequiredFields, obj) # ""
    THEN Err(ValueError("Missing required field in response"))
    ELSE IF ~InStrings(obj["status"], valid_statuses)
    THEN Err(ValueError("status must be one of"))
    ELSE IF ~ConfidenceOk(obj["confidence"])
    THEN Err(ValueError("Confidence must be between 0 and 1"))
    ELSE IF ~InStrings(obj["severity"], valid_severities)
    THEN Err(ValueError("severity must be one of"))
    ELSE IF ~InStrings(obj["action_recommended"], valid_actions)
    THEN Err(ValueError("action_recommended must be one of"))
    ELSE IF obj["detected_elements"].ty # "list"
    THEN Ok(With(obj, "detected_elements", ListV(<<PyStr(obj["detected_elements"])>>)))
    ELSE Ok(obj)

\* every failure leaves _parse_response as a ValueError
Chat_parse_response(text) ==
    LET j == extract_json_loads(text) IN
    IF ~j.ok THEN Err(ValueError("Invalid JSON response from LLM"))
    ELSE LET r == Chat_parse_checks(j.v) IN
         IF r.ok THEN r ELSE Err(ValueError("Failed to parse response"))

(***************************************************************************)
(* Exact arithmetic on naturals beyond the machine word: little-endian     *)
(* sequences of limbs in base LimbBase.  The price arithmetic of the code  *)
(* is modelled over exact rationals n / 100^k.                             *)
(***************************************************************************)
LimbBase == 100 * 100

RECURSIVE BigNorm(_)
BigNorm(a) == IF a # <<>> /\ a[Len(a)] = 0 THEN BigNorm(SubSeq(a, 1, Len(a) - 1)) ELSE a

RECURSIVE BigFromNat(_)
BigFromNat(n) == IF n = 0 THEN <<>> ELSE <<n % LimbBase>> \o BigFromNat(n \div LimbBase)

RECURSIVE BigToNat(_)
BigToNat(a) == IF a = <<>> THEN 0 ELSE Head(a) + LimbBase * BigToNat(Tail(a))

RECURSIVE BigMulCarry(_, _, _)
BigMulCarry(a, k, carry) ==
    IF a = <<>> THEN BigFromNat(carry)
    ELSE LET t == Head(a) * k + carry IN
         <<t % LimbBase>> \o BigMulCarry(Tail(a), k, t \div LimbBase)

\* a * k for a small natural k
BigMulSmall(a, k) == BigNorm(BigMulCarry(a, k, 0))

\* <<quotient limbs (little-endian), remainder>> of a divided by a small k > 0
RECURSIVE BigDivRem(_, _)
BigDivRem(a, k) ==
    IF a = <<>> THEN <<(<<>>), 0>>
    ELSE LET hi == BigDivRem(Tail(a), k)
             t == hi[2] * LimbBase + Head(a)
         IN <<(<<t \div k>>) \o hi[1], t % k>>

BigDivSmall(a, k) == BigNorm(BigDivRem(a, k)[1])

RECURSIVE BigAddCarry(_, _, _)
BigAddCarry(a, b, carry) ==
    IF a = <<>> /\ b = <<>> THEN BigFromNat(carry)
    ELSE LET x == IF a = <<>> THEN 0 ELSE Head(a)
             y == IF b = <<>> THEN 0 ELSE Head(b)
             t == x + y + carry
         IN <<t % LimbBase>> \o
            BigAddCarry(IF a = <<>> THEN a ELSE Tail(a), IF b = <<>> THEN b ELSE Tail(b),
                        t \div LimbBase)

BigAdd(a, b) == BigNorm(BigAddCarry(a, b, 0))

RECURSIVE BigMul(_, _)
BigMul(a, b) ==
    IF b = <<>> THEN <<>>
    ELSE CHOOSE product \in
             {BigAdd(row, BigNorm(<<0>> \o rest)) :
                  row \in {BigMulSmall(a, Head(b))}, rest \in {BigMul(a, Tail(b))}} : TRUE

\* comparison of normalised numbers, from the most significant limb down
RECURSIVE BigLessSameLen(_, _)
BigLessSameLen(a, b) ==
    IF a = <<>> THEN FALSE
    ELSE IF a[Len(a)] # b[Len(b)] THEN a[Len(a)] < b[Len(b)]
    ELSE BigLessSameLen(SubSeq(a, 1, Len(a) - 1), SubSeq(b, 1, Len(b) - 1))

BigLess(a, b) ==
    IF Len(a) # Len(b) THEN Len(a) < Len(b) ELSE BigLessSameLen(a, b)

\* k^n by repeated squaring; the half power is computed before it is squared
RECURSIVE BigPow(_, _)
BigPow(k, n) ==
    IF n = 0 THEN <<1>>
    ELSE CHOOSE power \in
             {IF n % 2 = 1 THEN BigMulSmall(square, k) ELSE square :
                  square \in {BigMul(half, half) : half \in {BigPow(k, n \div 2)}}} : TRUE

BigMulPow(a, k, n) == CHOOSE product \in {BigMul(a, power) : power \in {BigPow(k, n)}} : TRUE

RECURSIVE BigDivPow(_, _, _)
BigDivPow(a, k, n) == IF n = 0 THEN a ELSE BigDivPow(BigDivSmall(a, k), k, n - 1)

\* a divided by 100^n, rounded down: 100^2 is the limb base, so n \div 2 limbs
\* are dropped and an odd n leaves one division by 100
BigDivPow100(a, n) ==
    LET drop == n \div 2
        shifted == IF drop >= Len(a) THEN <<>> ELSE SubSeq(a, drop + 1, Len(a))
    IN IF n % 2 = 1 THEN BigDivSmall(shifted, 100) ELSE shifted

Abs(n) == IF n < 0 THEN 0 - n ELSE n

(***************************************************************************)
(* DataProcessor: the market data                                          *)
(***************************************************************************)
Item(cat, brand, cond, age, price) ==
    [category |-> cat, brand |-> brand, condition |-> cond, age_months |-> age,
     asking_price |-> price]

\* DataProcessor._create_fallback_data, used when the CSV file is absent
FallbackData ==
    << Item("Mobile", "Apple", "Good", 24, 35000),
       Item("Mobile", "Samsung", "Like New", 12, 40000),
       Item("Laptop", "Apple", "Good", 18, 65000),
       Item("Laptop", "Dell", "Fair", 36, 25000),
       Item("Camera", "Sony", "Like New", 6, 45000) >>

\* the data sets load_data can produce
Datasets == {FallbackData}

SameCategory(items, v) ==
    LET Keep(x) == v.ty = "str" /\ x.category = v.s IN SelectSeq(items, Keep)

age_tolerance == 12

\* DataProcessor.find_similar_products on the loaded frame
find_similar_products(items, category, brand, age) ==
    LET KeepBrand(x) == brand.ty = "str" /\ x.brand = brand.s
        similar == SelectSeq(SameCategory(items, category), KeepBrand)
        \* a comparison with NaN is false
        KeepAge(x) == age.ty = "int" /\ Abs(x.age_months - age.n) <= age_tolerance
        age_filtered == SelectSeq(similar, KeepAge)
        narrowed == IF similar # <<>> /\ age_filtered # <<>> THEN age_filtered ELSE similar
    IN IF narrowed = <<>> THEN SameCategory(items, category) ELSE narrowed

(***************************************************************************)
(* PriceSuggestorAgent: tables, validation, parsing                        *)
(***************************************************************************)
\* percent per month
depreciation_rates ==
    [Mobile |-> 5, Laptop |-> 4, Electronics |-> 3, Camera |-> 2, Fashion |-> 8,
     Furniture |-> 1]
default_depreciation_rate == 3

\* multipliers in hundredths
brand_multipliers ==
    [Apple |-> 120, Samsung |-> 110, Sony |-> 110, Canon |-> 110, Nike |-> 105,
     Adidas |-> 105, default |-> 100]

location_multipliers ==
    [Mumbai |-> 115, Delhi |-> 110, Bangalore |-> 112, Chennai |-> 108, Pune |-> 106,
     Hyderabad |-> 104, default |-> 100]

condition_multipliers == [Like_New |-> 85, Good |-> 70, Fair |-> 55]
default_condition_multiplier == 70
default_multiplier == 100

ConditionKey(s) == IF s = "Like New" THEN "Like_New" ELSE s

\* dict.get(key, default) for a table keyed by strings
Get(table, v, default) ==
    IF v.ty = "str" /\ v.s \in DOMAIN table THEN table[v.s] ELSE default

PriceRequiredFields ==
    <<"title", "category", "brand", "condition", "age_months", "asking_price", "location">>

valid_conditions == {"Like New", "Good", "Fair"}

\* variant of NumLess0 that finds no number negative
NumLess0_NeverNegative(v) == FALSE

\* v < 0 and v <= 0 for a number; every comparison with NaN is false
NumLess0(v) == v.ty = "int" /\ v.n < 0
NumLeq0(v) == v.ty = "int" /\ v.n <= 0

Price_validate_input(d) ==
    IF FirstMissing(PriceRequiredFields, d) # ""
    THEN Err(ValueError("Missing required field"))
    ELSE IF ~IsNumber(d["age_months"]) \/ NumLess0(d["age_months"])
    THEN Err(ValueError("age_months must be a non-negative number"))
    ELSE IF ~IsNumber(d["asking_price"]) \/ NumLeq0(d["asking_price"])
    THEN Err(ValueError("asking_price must be a positive number"))
    ELSE IF ~InStrings(d["condition"], valid_conditions)
    THEN Err(ValueError("condition must be one of"))
    ELSE Ok(None)

PriceReplyFields ==
    <<"suggested_price_range", "reasoning", "confidence", "market_position", "recommendations">>

valid_positions == {"underpriced", "fairly_priced", "overpriced"}

Price_parse_checks(obj) ==
    IF FirstMissing(PriceReplyFields, obj) # ""
    THEN Err(ValueError("Missing required field in response"))
    ELSE IF \/ obj["suggested_price_range"].ty # "dict"
            \/ "min" \notin DOMAIN obj["suggested_price_range"].m
            \/ "max" \notin DOMAIN obj["suggested_price_range"].m
    THEN Err(ValueError("Invalid price range structure"))
    ELSE IF ~ConfidenceOk(obj["confidence"])
    THEN Err(ValueError("Confidence must be between 0 and 1"))
    ELSE IF ~InStrings(obj["market_position"], valid_positions)
    THEN Err(ValueError("market_position must be one of"))
    ELSE Ok(obj)

Price_parse_response(text) ==
    LET j == extract_json_loads(text) IN
    IF ~j.ok THEN Err(ValueError("Invalid JSON response from LLM"))
    ELSE LET r == Price_parse_checks(j.v) IN
         IF r.ok THEN r ELSE Err(ValueError("Failed to parse response"))

(***************************************************************************)
(* PriceSuggestorAgent: market analysis, fraud indicators, confidence      *)
(***************************************************************************)
\* a step of the try block of _analyze_market raises: a key is absent, or an
\* age that is not a number is subtracted from the ages of the frame
market_analysis_raises(items, d) ==
    \/ \E f \in {"category", "brand", "age_months"} : f \notin DOMAIN d
    \/ /\ ~IsNumber(d["age_months"])
       /\ \E i \in DOMAIN items :
              /\ InStrings(d["category"], {items[i].category})
              /\ InStrings(d["brand"], {items[i].brand})

\* the similar_items of _analyze_market; none when a step raises
analyze_market_similar(items, d) ==
    IF market_analysis_raises(items, d) THEN <<>>
    ELSE
    LET similar == find_similar_products(items, d["category"], d["brand"], d["age_months"])
    IN IF similar = <<>> THEN SameCategory(items, d["category"]) ELSE similar

RECURSIVE SumPrices(_)
SumPrices(items) ==
    IF items = <<>> THEN 0 ELSE Head(items).asking_price + SumPrices(Tail(items))

RECURSIVE MinPrice(_)
MinPrice(items) ==
    IF Len(items) = 1 THEN items[1].asking_price
    ELSE LET m == MinPrice(Tail(items)) IN
         IF items[1].asking_price < m THEN items[1].asking_price ELSE m

RECURSIVE MaxPrice(_)
MaxPrice(items) ==
    IF Len(items) = 1 THEN items[1].asking_price
    ELSE LET m == MaxPrice(Tail(items)) IN
         IF items[1].asking_price > m THEN items[1].asking_price ELSE m

\* _analyze_market for a request whose category, brand, age_months and
\* asking_price are text and integers: the comparable items and their mean,
\* minimum and maximum price as fractions <<numerator, denominator>>; with no
\* comparable item, the asking price and its 0.8 and 1.2 multiples
analyze_market(items, d) ==
    LET similar == analyze_market_similar(items, d)
        asking_price == d["asking_price"].n
    IN [similar_items |-> similar,
        avg_price |-> IF similar # <<>> THEN <<SumPrices(similar), Len(similar)>>
                      ELSE <<asking_price, 1>>,
        min_price |-> IF similar # <<>> THEN <<MinPrice(similar), 1>>
                      ELSE <<asking_price * 8, 10>>,
        max_price |-> IF similar # <<>> THEN <<MaxPrice(similar), 1>>
                      ELSE <<asking_price * 12, 10>>]

RECURSIVE BigSumSquares(_)
BigSumSquares(items) ==
    IF items = <<>> THEN <<>>
    ELSE BigAdd(BigMul(BigFromNat(Head(items).asking_price),
                       BigFromNat(Head(items).asking_price)),
                BigSumSquares(Tail(items)))

\* |asking - mean| > k * std, with mean = S/n and the sample deviation
\* std = sqrt((n*SumSq - S^2) / (n*(n-1))), where dist = |n*asking - S|:
\*   (n-1) * dist^2 + k^2 * n * S^2 > k^2 * n^2 * SumSq
\* For n = 1 the deviation is NaN and the comparison is false.
BeyondDeviations(items, dist, k) ==
    LET n == Len(items)
        S == BigFromNat(SumPrices(items))
        d2 == BigMul(BigFromNat(dist), BigFromNat(dist))
        lhs == BigAdd(BigMulSmall(d2, n - 1), BigMulSmall(BigMul(S, S), k * k * n))
        rhs == BigMulSmall(BigSumSquares(items), k * k * n * n)
    IN n > 1 /\ BigLess(rhs, lhs)

low_price_deviations == 2
high_price_deviations == 3
max_reasonable_age == 120
premium_price_floor == 5000
like_new_max_age == 36

\* the five conditions of _detect_fraud_indicators, in the order of the code
FraudConditions(items, d) ==
    LET a == d["asking_price"]
        age == d["age_months"]
        same == SameCategory(items, d["category"])
        n == Len(same)
        S == SumPrices(same)
    IN << /\ same # <<>> /\ a.ty = "int" /\ n * a.n < S
          /\ BeyondDeviations(same, S - n * a.n, low_price_deviations),
          /\ same # <<>> /\ a.ty = "int" /\ n * a.n > S
          /\ BeyondDeviations(same, n * a.n - S, high_price_deviations),
          age.ty = "int" /\ age.n > max_reasonable_age,
          /\ InStrings(d["brand"], {"Apple", "Samsung"})
          /\ a.ty = "int" /\ a.n < premium_price_floor,
          /\ d["condition"] = StrV("Like New")
          /\ age.ty = "int" /\ age.n > like_new_max_age >>

\* variant of FraudWeights with the weights of the two price conditions exchanged
FraudWeights_PriceWeightsSwapped == <<20, 30, 10, 40, 20>>

FraudWeights == <<30, 20, 10, 40, 20>>

FraudMessages ==
    << "Suspiciously low price compared to market average",
       "Significantly overpriced compared to market",
       "Unusually old product age",
       "Premium brand with suspiciously low price",
       "'Like New' condition inconsistent with age" >>

RECURSIVE FraudScoreFrom(_, _, _)
FraudScoreFrom(conds, i, score) ==
    IF i > Len(conds) THEN score
    ELSE FraudScoreFrom(conds, i + 1,
                        IF conds[i] THEN FloatAdd(score, FraudWeights[i]) ELSE score)

RECURSIVE FraudIndicatorsFrom(_, _)
FraudIndicatorsFrom(conds, i) ==
    IF i > Len(conds) THEN <<>>
    ELSE (IF conds[i] THEN <<FraudMessages[i]>> ELSE <<>>) \o FraudIndicatorsFrom(conds, i + 1)

high_risk_score == 60
medium_risk_score == 30

\* variant of risk_level whose thresholds are inclusive
risk_level_AtThreshold(fraud_score) ==
    IF ~FloatLess(fraud_score, NumV(high_risk_score)) THEN "high"
    ELSE IF ~FloatLess(fraud_score, NumV(medium_risk_score)) THEN "medium"
    ELSE "low"

\* 'high' if fraud_score > 0.6 else 'medium' if fraud_score > 0.3 else 'low'
risk_level(fraud_score) ==
    IF FloatLess(NumV(high_risk_score), fraud_score) THEN "high"
    ELSE IF FloatLess(NumV(medium_risk_score), fraud_score) THEN "medium"
    ELSE "low"

\* a step of the try block of _detect_fraud_indicators raises: a key is absent,
\* or a value that is not a number is compared with one
fraud_detection_raises(items, d) ==
    \/ \E f \in {"asking_price", "age_months", "category", "brand", "condition"} :
           f \notin DOMAIN d
    \/ ~IsNumber(d["age_months"])
    \/ /\ ~IsNumber(d["asking_price"])
       /\ \/ SameCategory(items, d["category"]) # <<>>
          \/ InStrings(d["brand"], {"Apple", "Samsung"})

\* _detect_fraud_indicators: the sum of the weights of the conditions that
\* hold, or the result of the except block when a step raises
detect_fraud_indicators(items, d) ==
    IF fraud_detection_raises(items, d)
    THEN [fraud_score |-> NumV(0), fraud_indicators |-> <<>>, risk_level |-> "low"]
    ELSE
    LET conds == FraudConditions(items, d)
        fraud_score == FraudScoreFrom(conds, 1, NumV(0))
    IN [fraud_score |-> FloatMin(fraud_score, NumV(100)),
        fraud_indicators |-> FraudIndicatorsFrom(conds, 1),
        risk_level |-> risk_level(fraud_score)]

base_confidence == 50
reasonable_age == 60

\* all(field in data and data[field] for field in required_fields)
AllTruthy(d) ==
    \A i \in 1..Len(PriceRequiredFields) :
        PriceRequiredFields[i] \in DOMAIN d /\ Truthy(d[PriceRequiredFields[i]])

\* a step of the try block of _calculate_confidence_score raises: brand or
\* age_months is absent, the brand cannot be a key of a table, or the age is
\* compared with a number without being one
confidence_raises(d) ==
    \/ "brand" \notin DOMAIN d
    \/ d["brand"].ty \in {"list", "dict"}
    \/ "age_months" \notin DOMAIN d
    \/ ~IsNumber(d["age_months"])

\* variant of ReasonableAge that leaves out the age of exactly 60 months
ReasonableAge_BelowLimit(v) ==
    \/ v.ty = "int" /\ 0 <= v.n /\ v.n < reasonable_age
    \/ v.ty = "num" /\ ~FloatLess(v, NumV(0)) /\ FloatLess(v, NumV(100 * reasonable_age))

\* 0 <= v <= 60 for a number; every comparison with NaN is false
ReasonableAge(v) ==
    \/ v.ty = "int" /\ 0 <= v.n /\ v.n <= reasonable_age
    \/ v.ty = "num" /\ ~FloatLess(v, NumV(0)) /\ ~FloatLess(NumV(100 * reasonable_age), v)

\* _calculate_confidence_score: the base and the four additions, or the
\* result of the except block when a step raises
calculate_confidence_score(d, similar_items) ==
    IF confidence_raises(d) THEN NumV(base_confidence)
    ELSE
    LET count == Len(similar_items)
        c1 == IF count > 10 THEN FloatAdd(NumV(base_confidence), 30)
              ELSE IF count > 5 THEN FloatAdd(NumV(base_confidence), 20)
              ELSE IF count > 0 THEN FloatAdd(NumV(base_confidence), 10)
              ELSE NumV(base_confidence)
        c2 == IF d["brand"].ty = "str" /\ d["brand"].s \in DOMAIN brand_multipliers
              THEN FloatAdd(c1, 10) ELSE c1
        c3 == IF ReasonableAge(d["age_months"]) THEN FloatAdd(c2, 10) ELSE c2
        c4 == IF AllTruthy(d) THEN FloatAdd(c3, 10) ELSE c3
    IN FloatMin(c4, NumV(100))

(***************************************************************************)
(* PriceSuggestorAgent: fallback pricing                                   *)
(***************************************************************************)
\* int(n / m): truncation toward zero
TruncDiv(n, m) == IF n >= 0 THEN n \div m ELSE 0 - ((0 - n) \div m)

\* estimated_value of _generate_fallback_pricing as an exact rational
\*   sign * num / (base^times * 100^hundreds)
\* where monthly_depreciation ** age_months is ((100-rate)/100)^age for
\* age >= 0 and (100/(100-rate))^(-age) for age < 0
estimated_value(d) ==
    LET a == d["asking_price"].n
        age == d["age_months"].n
        keep == 100 - Get(depreciation_rates, d["category"], default_depreciation_rate)
        cond == IF d["condition"].ty = "str"
                THEN Get(condition_multipliers, StrV(ConditionKey(d["condition"].s)),
                         default_condition_multiplier)
                ELSE default_condition_multiplier
        brand == Get(brand_multipliers, d["brand"], default_multiplier)
        loc == Get(location_multipliers, d["location"], default_multiplier)
        powered == IF age >= 0 THEN BigMulPow(BigFromNat(Abs(a)), keep, age)
                   ELSE BigMulPow(BigFromNat(Abs(a)), 100, 0 - age)
    IN [negative |-> a < 0,
        num |-> BigMulSmall(BigMulSmall(BigMulSmall(powered, cond), brand), loc),
        base |-> keep,
        times |-> IF age >= 0 THEN 0 ELSE 0 - age,
        hundreds |-> IF age >= 0 THEN age + 3 ELSE 3]

\* variant of ScaledTrunc that rounds a positive quotient up instead of truncating
ScaledCeiling(est, pct) ==
    LET q == BigToNat(BigDivPow(BigDivPow100(BigMulSmall(est.num, pct), est.hundreds + 1),
                                est.base, est.times))
    IN IF est.negative THEN 0 - q ELSE q + 1

\* int(estimated_value * pct/100), computed exactly
ScaledTrunc(est, pct) ==
    LET q == BigToNat(BigDivPow(BigDivPow100(BigMulSmall(est.num, pct), est.hundreds + 1),
                                est.base, est.times))
    IN IF est.negative THEN 0 - q ELSE q

low_factor == 85
high_factor == 115

FallbackReasoning == StrV("Based on mathematical analysis")
EmergencyReasoning == StrV("Unable to perform detailed analysis")

\* variant of market_position with the two outer positions exchanged
market_position_Exchanged(asking_price, min_price, max_price) ==
    IF asking_price < min_price THEN "overpriced"
    ELSE IF asking_price > max_price THEN "underpriced"
    ELSE "fairly_priced"

\* _generate_fallback_pricing, lines 424-430
market_position(asking_price, min_price, max_price) ==
    IF asking_price < min_price THEN "underpriced"
    ELSE IF asking_price > max_price THEN "overpriced"
    ELSE "fairly_priced"

\* the try block of _generate_fallback_pricing: every failure in it is caught.
\* The execution_id of the metadata is attached by the caller of process_fallback.
fallback_try(d) ==
    IF \E f \in {"asking_price", "age_months", "category", "condition", "brand", "location"} :
           f \notin DOMAIN d
    THEN Err(KeyError("missing"))
    ELSE IF ~IsNumber(d["age_months"]) \/ ~IsNumber(d["asking_price"])
    THEN Err(TypeError("unsupported operand"))
    ELSE IF d["age_months"].ty # "int" \/ d["asking_price"].ty # "int"
    THEN Err(ValueError("cannot convert float NaN to integer"))
    ELSE LET est == estimated_value(d)
             min_price == ScaledTrunc(est, low_factor)
             max_price == ScaledTrunc(est, high_factor)
         IN Ok([suggested_price_range |->
                    DictV([min |-> IntV(min_price), max |-> IntV(max_price)]),
                reasoning |-> FallbackReasoning,
                confidence |-> NumV(60),
                market_position |->
                    StrV(market_position(d["asking_price"].n, min_price, max_price)),
                recommendations |-> ListV(<<StrV("Consider pricing between")>>),
                metadata |-> [agent_type |-> "price_suggestor_fallback"]])

emergency_low == 80
emergency_high == 120

\* the emergency result built from data['asking_price'] alone; evaluating
\* int(data['asking_price'] * 0.8) raises when the field is absent, is not a
\* number or is NaN
emergency_result(d, agent_type, reasoning) ==
    IF "asking_price" \notin DOMAIN d THEN Err(KeyError("asking_price"))
    ELSE IF ~IsNumber(d["asking_price"]) THEN Err(TypeError("can't multiply sequence"))
    ELSE IF d["asking_price"].ty # "int"
    THEN Err(ValueError("cannot convert float NaN to integer"))
    ELSE Ok([suggested_price_range |->
                 DictV([min |-> IntV(TruncDiv(d["asking_price"].n * emergency_low, 100)),
                        max |-> IntV(TruncDiv(d["asking_price"].n * emergency_high, 100))]),
             reasoning |-> reasoning,
             confidence |-> NumV(30),
             market_position |-> StrV("fairly_priced"),
             recommendations |-> ListV(<<StrV("Please try again later")>>),
             metadata |-> [agent_type |-> agent_type]])

\* variant of _generate_fallback_pricing whose except block builds no result
generate_fallback_pricing_TryOnly(d) == fallback_try(d)

\* _generate_fallback_pricing: the try block, else the emergency result of
\* its except block, whose own failure propagates
generate_fallback_pricing(d) ==
    LET r == fallback_try(d) IN
    IF r.ok THEN r
    ELSE emergency_result(d, "price_suggestor_emergency", EmergencyReasoning)

\* the except block of PriceSuggestorAgent.process after _update_stats:
\* fallback pricing, else the emergency result of process itself
process_fallback(d) ==
    LET r == generate_fallback_pricing(d) IN
    IF r.ok THEN r
    ELSE emergency_result(d, "emergency_fallback",
                          StrV("AI analysis temporarily unavailable"))

(***************************************************************************)
(* The inputs of the calls and the replies of the gateway                  *)
(***************************************************************************)
EmptyMapping == [f \in {} |-> None]

ChatInputs ==
    { [message |-> StrV(<<"h", "i">>)],
      [message |-> StrV(<<"o", "k", " ">>), context |-> StrV(<<"c">>)],
      [message |-> StrV(<<>>)],
      [message |-> StrV(<<" ", "\n">>)],
      [message |-> IntV(5)],
      [message |-> StrV(Chars(MaxMessageLen, "x"))],
      [message |-> StrV(Chars(MaxMessageLen + 1, "x"))],
      EmptyMapping }

PriceData(cat, brand, cond, age, price, loc) ==
    [title |-> StrV("iPhone 12"), category |-> StrV(cat), brand |-> StrV(brand),
     condition |-> StrV(cond), age_months |-> age, asking_price |-> price,
     location |-> StrV(loc)]

SamplePriceInput == PriceData("Mobile", "Apple", "Fair", IntV(24), IntV(34999), "Goa")
OtherPriceInput == PriceData("Books", "Acme", "Like New", IntV(0), IntV(4999), "Mumbai")

InputFields == {"category", "brand", "condition", "age_months", "asking_price", "location"}

\* the two sample requests and each of them with one field taken from the other
CrossedPriceInputs ==
    {SamplePriceInput, OtherPriceInput}
    \cup { With(SamplePriceInput, f, OtherPriceInput[f]) : f \in InputFields }
    \cup { With(OtherPriceInput, f, SamplePriceInput[f]) : f \in InputFields }

\* requests with one field at the edge of, or outside, what _validate_input accepts
EdgePriceInputs ==
    { With(SamplePriceInput, "condition", StrV("Good")),
      With(SamplePriceInput, "condition", StrV("Poor")),
      With(SamplePriceInput, "age_months", IntV(0 - 1)),
      PriceData("Mobile", "Apple", "Like New", IntV(0 - 1), IntV(34999), "Mumbai"),
      With(SamplePriceInput, "age_months", NaN),
      With(SamplePriceInput, "asking_price", IntV(0)),
      With(SamplePriceInput, "asking_price", NaN),
      With(SamplePriceInput, "asking_price", StrV("abc")) }

CompletePriceInputs == CrossedPriceInputs \cup EdgePriceInputs

PriceInputs ==
    CompletePriceInputs
    \cup { Without(SamplePriceInput, PriceRequiredFields[i]) :
             i \in 1..Len(PriceRequiredFields) }
    \cup { EmptyMapping }

\* process_fallback on each request of the model, evaluated once
FallbackOutcome == [d \in PriceInputs |-> process_fallback(d)]

Inputs(a) == IF a = Chat THEN ChatInputs ELSE PriceInputs

PriceReply(min, max, conf, pos) ==
    [suggested_price_range |-> DictV([min |-> min, max |-> max]),
     reasoning |-> StrV("Based on market analysis"),
     confidence |-> conf,
     market_position |-> StrV(pos),
     recommendations |-> ListV(<<StrV("Price is competitive")>>)]

\* MockLLMClient._generate_mock_price_response
MockPriceReply == PriceReply(IntV(15000), IntV(18000), NumV(75), "fairly_priced")

PriceReplies ==
    { JsonText("bare", MockPriceReply),
      JsonText("fenced", PriceReply(IntV(18000), IntV(15000), NumV(100), "overpriced")),
      JsonText("bare", PriceReply(StrV("cheap"), IntV(0 - 5), NumV(0), "underpriced")),
      JsonText("bare", PriceReply(IntV(1), IntV(2), NumV(150), "fairly_priced")),
      JsonText("bare", PriceReply(IntV(1), IntV(2), NumV(50), "bargain")),
      JsonText("bare", Without(MockPriceReply, "reasoning")),
      JsonText("bare", With(MockPriceReply, "suggested_price_range",
                            DictV([min |-> IntV(1)]))),
      ProseText }

ChatReply(status, conf, elements, severity, action) ==
    [status |-> StrV(status), reason |-> StrV("Message contains normal product inquiry"),
     confidence |-> conf, detected_elements |-> elements, severity |-> StrV(severity),
     action_recommended |-> StrV(action)]

\* MockLLMClient._generate_mock_moderation_response
MockChatReply == ChatReply("safe", NumV(90), ListV(<<>>), "low", "none")

ChatReplies ==
    { JsonText("bare", MockChatReply),
      JsonText("fenced", ChatReply("phone_detected", NumV(100), StrV("9876543210"),
                                   "high", "block")),
      JsonText("bare", ChatReply("fine", NumV(90), ListV(<<>>), "low", "none")),
      JsonText("bare", ChatReply("safe", NumV(150), ListV(<<>>), "low", "none")),
      JsonText("bare", ChatReply("abusive", NumV(0), ListV(<<>>), "severe", "warn")),
      JsonText("bare", ChatReply("abusive", NumV(40), ListV(<<>>), "medium", "ban")),
      JsonText("bare", Without(MockChatReply, "reason")),
      JsonText("bare", ChatReply("abusive", NumV(80), ListV(<<IntV(5)>>), "high", "block")),
      JsonText("bare", ChatReply("safe", NaN, ListV(<<>>), "low", "none")),
      ProseText }

(***************************************************************************)
(* The prompts and the offline backend.  A prompt is the sequence of its   *)
(* lines; of the fixed text of a template the model keeps the lines that   *)
(* hold a word MockLLMClient.generate looks for, or one close to it.  The  *)
(* values interpolated in the pricing prompt are left out: the template    *)
(* holds "pricing" whatever they are.                                      *)
(***************************************************************************)
\* chat_moderator.py, line 58
ChatPromptRole ==
    << "Y", "o", "u", " ", "a", "r", "e", " ", "a", "n", " ", "e", "x", "p",
       "e", "r", "t", " ", "c", "o", "n", "t", "e", "n", "t", " ", "m", "o",
       "d", "e", "r", "a", "t", "o", "r", " ", "f", "o", "r", " ", "a", " ",
       "t", "r", "u", "s", "t", "e", "d", " ", "m", "a", "r", "k", "e", "t",
       "p", "l", "a", "c", "e", " ", "p", "l", "a", "t", "f", "o", "r", "m",
       "." >>
\* line 60, before and after the message
ChatPromptMessage ==
    << "M", "E", "S", "S", "A", "G", "E", " ", "T", "O", " ", "A", "N", "A",
       "L", "Y", "Z", "E", ":", " ", "\"" >>
\* line 62, before the context
ChatPromptContext ==
    << "C", "O", "N", "T", "E", "X", "T", ":", " " >>
\* line 69
ChatPromptGuidelines ==
    << "M", "O", "D", "E", "R", "A", "T", "I", "O", "N", " ", "G", "U", "I",
       "D", "E", "L", "I", "N", "E", "S", ":" >>
\* line 73
ChatPromptNegotiations ==
    << "-", " ", "P", "r", "i", "c", "e", " ", "n", "e", "g", "o", "t", "i",
       "a", "t", "i", "o", "n", "s" >>
\* line 87
ChatPromptRepetitive ==
    << "-", " ", "R", "e", "p", "e", "t", "i", "t", "i", "v", "e", " ", "m",
       "e", "s", "s", "a", "g", "e", "s" >>
\* data.get('context', 'No additional context')
NoContext ==
    << "N", "o", " ", "a", "d", "d", "i", "t", "i", "o", "n", "a", "l", " ",
       "c", "o", "n", "t", "e", "x", "t" >>

\* ChatModeratorAgent._generate_prompt, for a mapping whose message is text
Chat_generate_prompt(d) ==
    LET context == IF "context" \in DOMAIN d THEN d["context"].s ELSE NoContext IN
    << ChatPromptRole,
       ChatPromptMessage \o d["message"].s \o <<"\"">>,
       ChatPromptContext \o context,
       ChatPromptGuidelines,
       ChatPromptNegotiations,
       ChatPromptRepetitive >>

\* price_suggestor.py, lines 73 and 123
PricePromptRole ==
    << "Y", "o", "u", " ", "a", "r", "e", " ", "a", "n", " ", "e", "x", "p",
       "e", "r", "t", " ", "s", "e", "c", "o", "n", "d", "-", "h", "a", "n",
       "d", " ", "m", "a", "r", "k", "e", "t", "p", "l", "a", "c", "e", " ",
       "p", "r", "i", "c", "i", "n", "g", " ", "a", "n", "a", "l", "y", "s",
       "t" >>
\* lines 75 and 125
PricePromptProduct ==
    << "P", "R", "O", "D", "U", "C", "T", " ", "T", "O", " ", "P", "R", "I",
       "C", "E", ":" >>

\* PriceSuggestorAgent._generate_prompt and _generate_fallback_prompt
Price_generate_prompt(d) == << PricePromptRole, PricePromptProduct >>

generate_prompt(a, d) == IF a = Chat THEN Chat_generate_prompt(d) ELSE Price_generate_prompt(d)

\* the reply of MockLLMClient.generate to a prompt of neither kind
UnknownPromptReply ==
    JsonText("bare", [error |-> StrV("Unknown prompt type"), confidence |-> NumV(50)])

\* word in prompt.lower()
InPromptLower(prompt, word) ==
    \E i \in DOMAIN prompt : Contains(ToLower(prompt[i]), word)

\* MockLLMClient.generate
MockLLMClient_generate(prompt) ==
    IF \/ InPromptLower(prompt, <<"p", "r", "i", "c", "e">>)
       \/ InPromptLower(prompt, <<"p", "r", "i", "c", "i", "n", "g">>)
    THEN JsonText("bare", MockPriceReply)
    ELSE IF \/ InPromptLower(prompt, <<"m", "o", "d", "e", "r", "a", "t", "e">>)
            \/ InPromptLower(prompt, <<"m", "e", "s", "s", "a", "g", "e">>)
    THEN JsonText("bare", MockChatReply)
    ELSE UnknownPromptReply

\* what one call of llm_client.generate can do: raise, or return a text
Raises == [kind |-> "raise"]
GatewayOutcomes(a) ==
    {Raises, EmptyText, BlankText} \cup (IF a = Chat THEN ChatReplies ELSE PriceReplies)

(***************************************************************************)
(* The state machine: serialized process calls on the two agent instances  *)
(***************************************************************************)
NoStats == [a \in Agents |-> 0]

\* the state after construction of the two agents, no call in progress
Constructed ==
    /\ execution_count = NoStats
    /\ success_count = NoStats
    /\ df = "None"
    /\ uuid_counter = 0
    /\ pc = "idle"
    /\ agent = Chat
    /\ data = EmptyMapping
    /\ attempt = 0
    /\ last_exception = None
    /\ response = None
    /\ exception = None
    /\ result = None
    /\ outcome = "none"
    /\ calls = 0
    /\ trace = <<>>
    /\ validation = "none"
    /\ parsing = "none"
    /\ completed = [a \in Agents |-> [success |-> 0, failure |-> 0]]
    /\ exec_at_call = 0
    /\ issued_ids = [a \in Agents |-> {}]
    /\ id_reused = FALSE

Init ==
    /\ Constructed
    /\ threads = <<>>
    /\ gateway = <<>>
    /\ earlier = <<>>

\* BaseAgent.success_rate as the fraction <<numerator, denominator>>; 0.0 is <<0, 1>>
success_rate(a) ==
    IF execution_count[a] = 0 THEN <<0, 1>> ELSE <<success_count[a], execution_count[a]>>

\* variant of update_stats that counts an execution only when it succeeded
update_stats_SkipsFailures(a, success) ==
    /\ execution_count' = IF success THEN [execution_count EXCEPT ![a] = @ + 1]
                          ELSE execution_count
    /\ success_count' = IF success THEN [success_count EXCEPT ![a] = @ + 1] ELSE success_count

\* BaseAgent._update_stats
update_stats(a, success) ==
    /\ execution_count' = [execution_count EXCEPT ![a] = @ + 1]
    /\ success_count' = IF success THEN [success_count EXCEPT ![a] = @ + 1] ELSE success_count

\* DataProcessor.load_data: the frame is loaded on first use and kept
load_data(loaded) == IF df = "None" THEN loaded ELSE df

validate_input(a, d) == IF a = Chat THEN Chat_validate_input(d) ELSE Price_validate_input(d)
parse_response(a, text) == IF a = Chat THEN Chat_parse_response(text) ELSE Price_parse_response(text)

\* a caller invokes agent.process(data)
Call(a, d) ==
    /\ pc = "idle"
    /\ calls < MaxCalls
    /\ calls' = calls + 1
    /\ agent' = a
    /\ data' = d
    /\ pc' = IF a = Chat THEN "start" ELSE "validate"
    /\ exec_at_call' = execution_count[a]
    /\ UNCHANGED <<auxvars, execution_count, success_count, df, uuid_counter, attempt,
                   last_exception, response, exception, result, outcome, trace, validation, parsing,
                   completed, issued_ids, id_reused>>

\* variant of BaseStart that forgets to count the execution
BaseStart_NoCount ==
    /\ pc = "start"
    /\ pc' = "validate"
    /\ UNCHANGED <<auxvars, execution_count, success_count, df, uuid_counter, callvars, calls,
                   trace, validation, parsing, completed, exec_at_call, issued_ids, id_reused>>

\* BaseAgent.process, line 35: the count is taken before anything else
BaseStart ==
    /\ pc = "start"
    /\ execution_count' = [execution_count EXCEPT ![agent] = @ + 1]
    /\ pc' = "validate"
    /\ UNCHANGED <<auxvars, success_count, df, uuid_counter, callvars, calls, trace, validation,
                   parsing, completed, exec_at_call, issued_ids, id_reused>>

\* variant of Validate that logs a validation failure and carries on
Validate_IgnoresFailure ==
    /\ pc = "validate"
    /\ validation' = IF validate_input(agent, data).ok THEN "passed" ELSE "failed"
    /\ pc' = "llm"
    /\ \E loaded \in Datasets : df' = IF agent = Price THEN load_data(loaded) ELSE df
    /\ UNCHANGED <<auxvars, execution_count, success_count, uuid_counter, agent, data, attempt,
                   last_exception, response, exception, result, outcome, calls, trace,
                   parsing, completed, exec_at_call, issued_ids, id_reused>>

\* _validate_input, then _generate_prompt; the price prompt runs
\* _analyze_market, which loads the market data
Validate ==
    /\ pc = "validate"
    /\ LET r == validate_input(agent, data) IN
       IF r.ok
       THEN /\ validation' = "passed"
            /\ pc' = "llm"
            /\ \E loaded \in Datasets : df' = IF agent = Price THEN load_data(loaded) ELSE df
            /\ UNCHANGED exception
       ELSE /\ validation' = "failed"
            /\ exception' = r.exc
            /\ pc' = "except"
            /\ UNCHANGED df
    /\ UNCHANGED <<auxvars, execution_count, success_count, uuid_counter, agent, data, attempt,
                   last_exception, response, result, outcome, calls, trace, parsing,
                   completed, exec_at_call, issued_ids, id_reused>>

\* the exception of one attempt of _call_llm_with_retry: the one generate
\* raised, or the ValueError raised for an empty response
AttemptError(out, n) ==
    IF out.kind = "raise" THEN [type |-> "Exception", msg |-> "API error", attempt |-> n]
    ELSE [type |-> "ValueError", msg |-> "Empty response from LLM", attempt |-> n]

\* variant of NonEmpty that tests the response without stripping it
NonEmpty_NoStrip(out) == out.kind # "raise" /\ TextTruthy(out)

\* response and response.strip()
NonEmpty(out) == out.kind # "raise" /\ TextTruthy(out) /\ TextTruthy(Strip(out))

\* variant of Generate that keeps the first failure in last_exception
Generate_KeepsFirstFailure(out) ==
    /\ pc = "llm"
    /\ attempt < max_retries
    /\ trace' = Append(trace, [ev |-> "generate", out |-> out])
    /\ IF out.kind # "raise" /\ TextTruthy(out) /\ TextTruthy(Strip(out))
       THEN /\ response' = out
            /\ pc' = "parse"
            /\ UNCHANGED <<last_exception, exception, attempt>>
       ELSE /\ last_exception' = IF last_exception = None THEN AttemptError(out, attempt)
                                 ELSE last_exception
            /\ IF attempt < max_retries - 1
               THEN /\ pc' = "sleep"
                    /\ UNCHANGED <<exception, attempt>>
               ELSE /\ attempt' = attempt + 1
                    /\ exception' = last_exception'
                    /\ pc' = "except"
            /\ UNCHANGED response
    /\ UNCHANGED <<auxvars, execution_count, success_count, df, uuid_counter, agent, data, result,
                   outcome, calls, validation, parsing, completed, exec_at_call,
                   issued_ids, id_reused>>

\* one pass of the loop of _call_llm_with_retry up to its return, its sleep
\* or, after the last attempt, its raise of last_exception
Generate(out) ==
    /\ pc = "llm"
    /\ attempt < max_retries
    /\ trace' = Append(trace, [ev |-> "generate", out |-> out])
    /\ IF NonEmpty(out)
       THEN /\ response' = out
            /\ pc' = "parse"
            /\ UNCHANGED <<last_exception, exception, attempt>>
       ELSE /\ last_exception' = AttemptError(out, attempt)
            /\ IF attempt < max_retries - 1
               THEN /\ pc' = "sleep"
                    /\ UNCHANGED <<exception, attempt>>
               ELSE /\ attempt' = attempt + 1
                    /\ exception' = last_exception'
                    /\ pc' = "except"
            /\ UNCHANGED response
    /\ UNCHANGED <<auxvars, execution_count, success_count, df, uuid_counter, agent, data, result,
                   outcome, calls, validation, parsing, completed, exec_at_call,
                   issued_ids, id_reused>>

\* time.sleep(1) between two attempts
Sleep ==
    /\ pc = "sleep"
    /\ trace' = Append(trace, [ev |-> "sleep"])
    /\ attempt' = attempt + 1
    /\ pc' = "llm"
    /\ UNCHANGED <<auxvars, execution_count, success_count, df, uuid_counter, agent, data,
                   last_exception, response, exception, result, outcome, calls,
                   validation, parsing, completed, exec_at_call, issued_ids, id_reused>>

\* variant of Parse that asks the gateway again when the reply is rejected
Parse_RetriesRejectedReply ==
    /\ pc = "parse"
    /\ LET r == parse_response(agent, response) IN
       IF r.ok
       THEN /\ parsing' = "passed"
            /\ result' = r.v
            /\ pc' = "success"
            /\ UNCHANGED <<exception, attempt>>
       ELSE /\ parsing' = "failed"
            /\ exception' = r.exc
            /\ IF attempt < max_retries - 1
               THEN pc' = "llm" /\ attempt' = attempt + 1
               ELSE pc' = "except" /\ UNCHANGED attempt
            /\ UNCHANGED result
    /\ UNCHANGED <<auxvars, execution_count, success_count, df, uuid_counter, agent, data,
                   last_exception, response, outcome, calls, trace, validation,
                   completed, exec_at_call, issued_ids, id_reused>>

\* _parse_response on the text the retry loop returned
Parse ==
    /\ pc = "parse"
    /\ LET r == parse_response(agent, response) IN
       IF r.ok
       THEN /\ parsing' = "passed"
            /\ result' = r.v
            /\ pc' = "success"
            /\ UNCHANGED exception
       ELSE /\ parsing' = "failed"
            /\ exception' = r.exc
            /\ pc' = "except"
            /\ UNCHANGED result
    /\ UNCHANGED <<auxvars, execution_count, success_count, df, uuid_counter, agent, data, attempt,
                   last_exception, response, outcome, calls, trace, validation,
                   completed, exec_at_call, issued_ids, id_reused>>

\* the bookkeeping of a call that returns a result carrying execution_id id
Returned(id) ==
    /\ outcome' = "returned"
    /\ pc' = "done"
    /\ id_reused' = (id \in issued_ids[agent])
    /\ issued_ids' = [issued_ids EXCEPT ![agent] = @ \cup {id}]

\* the bookkeeping of a call that raises e to its caller
Raised(e) ==
    /\ outcome' = "raised"
    /\ exception' = e
    /\ pc' = "done"
    /\ UNCHANGED <<issued_ids, id_reused>>

\* variant of BaseSuccess that numbers the result by the successes so far
BaseSuccess_IdFromSuccessCount ==
    /\ pc = "success"
    /\ agent = Chat
    /\ success_count' = [success_count EXCEPT ![agent] = @ + 1]
    /\ result' = With(result, "metadata",
                      [agent_type |-> agent, execution_id |-> IntV(success_count'[agent])])
    /\ Returned(IntV(success_count'[agent]))
    /\ completed' = [completed EXCEPT ![agent].success = @ + 1]
    /\ UNCHANGED <<auxvars, execution_count, df, uuid_counter, agent, data, attempt, last_exception,
                   response, exception, calls, trace, validation, parsing, exec_at_call>>

\* variant of BaseSuccess that takes the execution_id from the attempt number
BaseSuccess_IdFromAttempt ==
    /\ pc = "success"
    /\ agent = Chat
    /\ success_count' = [success_count EXCEPT ![agent] = @ + 1]
    /\ result' = With(result, "metadata",
                      [agent_type |-> agent, execution_id |-> IntV(attempt + 1)])
    /\ Returned(IntV(attempt + 1))
    /\ completed' = [completed EXCEPT ![agent].success = @ + 1]
    /\ UNCHANGED <<auxvars, execution_count, df, uuid_counter, agent, data, attempt, last_exception,
                   response, exception, calls, trace, validation, parsing, exec_at_call>>

\* variant of BaseSuccess that also writes the execution count into the result
BaseSuccess_CountInPayload ==
    /\ pc = "success"
    /\ agent = Chat
    /\ success_count' = [success_count EXCEPT ![agent] = @ + 1]
    /\ result' = With(With(result, "sequence", IntV(execution_count[agent])), "metadata",
                      [agent_type |-> agent, execution_id |-> IntV(execution_count[agent])])
    /\ Returned(IntV(execution_count[agent]))
    /\ completed' = [completed EXCEPT ![agent].success = @ + 1]
    /\ UNCHANGED <<auxvars, execution_count, df, uuid_counter, agent, data, attempt,
                   last_exception, response, exception, calls, trace, validation, parsing,
                   exec_at_call>>

\* BaseAgent.process, lines 52-66
BaseSuccess ==
    /\ pc = "success"
    /\ agent = Chat
    /\ success_count' = [success_count EXCEPT ![agent] = @ + 1]
    /\ result' = With(result, "metadata",
                      [agent_type |-> agent, execution_id |-> IntV(execution_count[agent])])
    /\ Returned(IntV(execution_count[agent]))
    /\ completed' = [completed EXCEPT ![agent].success = @ + 1]
    /\ UNCHANGED <<auxvars, execution_count, df, uuid_counter, agent, data, attempt, last_exception,
                   response, exception, calls, trace, validation, parsing, exec_at_call>>

\* variant of BaseExcept that answers a failure with a default verdict
BaseExcept_DefaultsToSafe ==
    /\ pc = "except"
    /\ agent = Chat
    /\ result' = [status |-> StrV("safe"), reason |-> StrV("moderation unavailable"),
                  confidence |-> NumV(0), detected_elements |-> ListV(<<>>),
                  severity |-> StrV("low"), action_recommended |-> StrV("none"),
                  metadata |-> [agent_type |-> agent,
                                execution_id |-> IntV(execution_count[agent])]]
    /\ Returned(IntV(execution_count[agent]))
    /\ completed' = [completed EXCEPT ![agent].failure = @ + 1]
    /\ UNCHANGED <<auxvars, execution_count, success_count, df, uuid_counter, agent, data, attempt,
                   last_exception, response, exception, calls, trace, validation, parsing,
                   exec_at_call>>

\* BaseAgent.process, lines 68-72
BaseExcept ==
    /\ pc = "except"
    /\ agent = Chat
    /\ Raised(exception)
    /\ completed' = [completed EXCEPT ![agent].failure = @ + 1]
    /\ UNCHANGED <<auxvars, execution_count, success_count, df, uuid_counter, agent, data, attempt,
                   last_exception, response, result, calls, trace, validation, parsing,
                   exec_at_call>>

\* uuid.uuid4(): a value not drawn before
uuid4 == uuid_counter + 1

\* str(u) of a UUID u: its text, which is no integer
UuidText(u) == [ty |-> "str", uuid |-> u]

\* PriceSuggestorAgent.process, lines 251-272
PriceSuccess ==
    /\ pc = "success"
    /\ agent = Price
    /\ \E loaded \in Datasets :
         LET items == load_data(loaded)
             fraud_analysis == detect_fraud_indicators(items, data)
             enhanced_confidence ==
                 calculate_confidence_score(data, analyze_market_similar(items, data))
             confidence == FloatMax(result["confidence"], enhanced_confidence)
         IN /\ df' = items
            /\ result' = With(With(With(result, "fraud_analysis", fraud_analysis),
                                   "confidence", confidence),
                              "metadata",
                              [agent_type |-> "price_suggestor", execution_id |-> UuidText(uuid4)])
    /\ uuid_counter' = uuid4
    /\ update_stats(agent, TRUE)
    /\ Returned(UuidText(uuid4))
    /\ completed' = [completed EXCEPT ![agent].success = @ + 1]
    /\ UNCHANGED <<auxvars, agent, data, attempt, last_exception, response, exception, calls, trace,
                   validation, parsing, exec_at_call>>

\* variant of PriceExcept that asks the gateway once more before falling back
PriceExcept_AsksGatewayAgain ==
    /\ pc = "except"
    /\ agent = Price
    /\ update_stats(agent, FALSE)
    /\ trace' = Append(trace, [ev |-> "generate", out |-> Raises])
    /\ LET r == FallbackOutcome[data] IN
       IF r.ok
       THEN /\ result' = With(r.v, "metadata",
                              [agent_type |-> r.v["metadata"].agent_type,
                               execution_id |-> UuidText(uuid4)])
            /\ uuid_counter' = uuid4
            /\ Returned(UuidText(uuid4))
            /\ UNCHANGED exception
       ELSE /\ Raised(r.exc)
            /\ UNCHANGED <<result, uuid_counter>>
    /\ completed' = [completed EXCEPT ![agent].failure = @ + 1]
    /\ UNCHANGED <<auxvars, df, agent, data, attempt, last_exception, response, calls,
                   validation, parsing, exec_at_call>>

\* PriceSuggestorAgent.process, lines 274-300
PriceExcept ==
    /\ pc = "except"
    /\ agent = Price
    /\ update_stats(agent, FALSE)
    /\ LET r == FallbackOutcome[data] IN
       IF r.ok
       THEN /\ result' = With(r.v, "metadata",
                              [agent_type |-> r.v["metadata"].agent_type,
                               execution_id |-> UuidText(uuid4)])
            /\ uuid_counter' = uuid4
            /\ Returned(UuidText(uuid4))
            /\ UNCHANGED exception
       ELSE /\ Raised(r.exc)
            /\ UNCHANGED <<result, uuid_counter>>
    /\ completed' = [completed EXCEPT ![agent].failure = @ + 1]
    /\ UNCHANGED <<auxvars, df, agent, data, attempt, last_exception, response, calls, trace,
                   validation, parsing, exec_at_call>>

\* the caller has taken the result or the exception; the agent is idle again
ReturnToIdle ==
    /\ pc = "done"
    /\ pc' = "idle"
    /\ data' = EmptyMapping
    /\ attempt' = 0
    /\ last_exception' = None
    /\ response' = None
    /\ exception' = None
    /\ result' = None
    /\ outcome' = "none"
    /\ trace' = <<>>
    /\ validation' = "none"
    /\ parsing' = "none"
    /\ id_reused' = FALSE
    /\ agent' = Chat
    /\ exec_at_call' = 0
    /\ UNCHANGED <<execution_count, success_count, df, uuid_counter, calls, completed,
                   issued_ids>>

Return == ReturnToIdle /\ UNCHANGED auxvars

Next ==
    \/ \E a \in Agents : \E d \in Inputs(a) : Call(a, d)
    \/ BaseStart
    \/ Validate
    \/ \E out \in GatewayOutcomes(agent) : Generate(out)
    \/ Sleep
    \/ Parse
    \/ BaseSuccess
    \/ BaseExcept
    \/ PriceSuccess
    \/ PriceExcept
    \/ Return

Spec == Init /\ [][Next]_vars

(***************************************************************************)
(* The same calls against a gateway that is a function of the prompt: the  *)
(* prompt is built from data and the loaded frame, so generate does the    *)
(* same thing every time it is invoked for the same agent and input.       *)
(***************************************************************************)
\* per agent, a few inputs: for the price agent one that takes the LLM path,
\* one that fails validation, one whose fallback arithmetic fails and one
\* whose emergency result fails too
RepeatKeys ==
    { <<Chat, [message |-> StrV(<<"h", "i">>)]>>,
      <<Price, SamplePriceInput>>,
      <<Price, With(SamplePriceInput, "condition", StrV("Poor"))>>,
      <<Price, With(SamplePriceInput, "age_months", NaN)>>,
      <<Price, With(SamplePriceInput, "asking_price", NaN)>> }

\* what a deterministic gateway can do for a prompt: raise, give the mock
\* reply, or give text that is not JSON
RepeatOutcomes(a) ==
    {Raises, JsonText("bare", IF a = Chat THEN MockChatReply ELSE MockPriceReply), ProseText}

RepeatInit ==
    /\ Constructed
    /\ threads = <<>>
    /\ gateway \in { g \in [RepeatKeys -> UNION { RepeatOutcomes(a) : a \in Agents }] :
                         \A k \in RepeatKeys : g[k] \in RepeatOutcomes(k[1]) }
    /\ earlier = [k \in RepeatKeys |-> None]

\* what the caller of process observes, the execution_id left out
Observed ==
    IF outcome = "returned"
    THEN [outcome |-> "returned",
          payload |-> With(result, "metadata", [agent_type |-> result["metadata"].agent_type])]
    ELSE [outcome |-> "raised", exception |-> exception]

\* Return, the caller keeping what the first call for this agent and input gave
ReturnRecorded ==
    /\ ReturnToIdle
    /\ earlier' = IF earlier[<<agent, data>>] = None
                  THEN [earlier EXCEPT ![<<agent, data>>] = Observed]
                  ELSE earlier
    /\ UNCHANGED <<threads, gateway>>

RepeatNext ==
    \/ \E k \in RepeatKeys : Call(k[1], k[2])
    \/ BaseStart
    \/ Validate
    \/ Generate(gateway[<<agent, data>>])
    \/ Sleep
    \/ Parse
    \/ BaseSuccess
    \/ BaseExcept
    \/ PriceSuccess
    \/ PriceExcept
    \/ ReturnRecorded

RepeatSpec == RepeatInit /\ [][RepeatNext]_vars

(***************************************************************************)
(* Properties                                                              *)
(***************************************************************************)
PriceDone == pc = "done" /\ agent = Price
ChatDone == pc = "done" /\ agent = Chat

GenerateIndices == { i \in DOMAIN trace : trace[i].ev = "generate" }
SleepIndices == { i \in DOMAIN trace : trace[i].ev = "sleep" }

\* a gateway invocation that raised or gave an empty or whitespace-only text
FailedReply(out) == out \in {Raises, EmptyText, BlankText}

\* the gateway was invoked max_retries times in this call and failed each time
AllAttemptsFailed ==
    /\ Cardinality(GenerateIndices) = 2
    /\ \A i \in GenerateIndices : FailedReply(trace[i].out)

RangeOf(r) == r["suggested_price_range"].m

IntegerRange(r) ==
    /\ r["suggested_price_range"].ty = "dict"
    /\ RangeOf(r)["min"].ty = "int"
    /\ RangeOf(r)["max"].ty = "int"

InUnitInterval(v) ==
    v.ty = "num" /\ ~FloatLess(v, NumV(0)) /\ ~FloatLess(NumV(100), v)

\* C1: every price call whose input passed _validate_input, whatever the
\* gateway did (failed on every call, gave empty text, or gave a reply that
\* passed _parse_response), returns without raising a result whose range has
\* integer min and max with 0 <= min <= max and whose confidence is in [0,1].
C1_ValidatedPriceCallReturnsSoundRange ==
    (PriceDone /\ validation = "passed" /\ parsing # "failed") =>
        /\ outcome = "returned"
        /\ IntegerRange(result)
        /\ 0 <= RangeOf(result)["min"].n
        /\ RangeOf(result)["min"].n <= RangeOf(result)["max"].n
        /\ InUnitInterval(result["confidence"])

\* C2: a price call never ends by raising, whatever the input mapping; and
\* when the mathematical fallback fails, the result returned is the emergency
\* one: range asking_price x [0.8, 1.2], confidence 0.3, fairly_priced.
C2_PriceCallNeverRaises ==
    PriceDone =>
        /\ outcome = "returned"
        /\ (exception # None /\ ~fallback_try(data).ok) =>
               /\ RangeOf(result)["min"] = IntV(TruncDiv(data["asking_price"].n * 8, 10))
               /\ RangeOf(result)["max"] = IntV(TruncDiv(data["asking_price"].n * 12, 10))
               /\ result["confidence"] = NumV(30)
               /\ result["market_position"] = StrV("fairly_priced")

\* validation passed, an invocation within the retry budget gave a non-empty
\* text, and that text passed _parse_response
ChatAllStepsPassed ==
    /\ validation = "passed"
    /\ Cardinality(GenerateIndices) <= 2
    /\ \E i \in GenerateIndices : ~FailedReply(trace[i].out) /\ response = trace[i].out
    /\ parsing = "passed"

\* C3: a chat call returns a verdict only when validation passed, the gateway
\* gave a non-empty text within the retry budget and the text passed
\* _parse_response; in every other case it raises and hands back no verdict.
C3_ChatVerdictOnlyWhenAllStepsPassed ==
    ChatDone =>
        /\ outcome \in {"returned", "raised"}
        /\ outcome = "returned" =>
               /\ ChatAllStepsPassed
               /\ Without(result, "metadata") = Chat_parse_response(response).v
        /\ ~ChatAllStepsPassed =>
               /\ outcome = "raised"
               /\ exception # None
               /\ result = None

C3_Witness ==
    ChatDone /\ outcome = "raised" /\ validation = "passed" /\ parsing = "failed"
    /\ Len(trace) = 3

\* C4: between calls, with N calls of an agent completed on the success path
\* and M on a failure path, execution_count = N + M, success_count = N and
\* success_rate = N / (N + M), or 0 when N + M = 0; and a call changes
\* execution_count by exactly 1.
C4_CountersMatchCompletedCalls ==
    /\ pc \in {"idle", "done"} =>
           \A a \in Agents :
               LET N == completed[a].success
                   M == completed[a].failure
               IN /\ execution_count[a] = N + M
                  /\ success_count[a] = N
                  /\ IF N + M = 0 THEN success_rate(a)[1] = 0
                     ELSE success_rate(a)[1] * (N + M) = N * success_rate(a)[2]
                  /\ success_rate(a)[2] > 0
    /\ pc = "done" => execution_count[agent] = exec_at_call + 1
    /\ pc \notin {"idle", "done"} => execution_count[agent] - exec_at_call \in {0, 1}

C4_Witness ==
    /\ pc = "idle"
    /\ completed[Price].success = 1 /\ completed[Price].failure = 1
    /\ completed[Chat].failure = 1

C6_NoGenerateAfterFailedValidation ==
    validation = "failed" => GenerateIndices = {}

C6_Witness ==
    PriceDone /\ validation = "failed" /\ outcome = "returned" /\ trace = <<>>

\* C7: the gateway is invoked at most 2 times per call; an invocation follows
\* another only if the earlier one raised or gave an empty or whitespace-only
\* text; the first non-empty reply is what the retry loop returns, unchanged.
C7_AtMostTwoInvocationsFirstReplyReturned ==
    /\ Cardinality(GenerateIndices) <= 2
    /\ \A i \in GenerateIndices : \A j \in GenerateIndices :
           i < j => FailedReply(trace[i].out)
    /\ \A i \in GenerateIndices : ~FailedReply(trace[i].out) => response = trace[i].out
    /\ response # None =>
           /\ ~FailedReply(response)
           /\ \E i \in GenerateIndices : response = trace[i].out

C7_Witness ==
    /\ pc = "parse"
    /\ Cardinality(GenerateIndices) = 2
    /\ trace[1].out = BlankText
    /\ response = trace[3].out

\* C8: when both attempts fail, the failure handed on is the one of the second
\* attempt; the backoff wait happens exactly once, after the first failure and
\* before the second attempt, and not after the last failed attempt.
C8_LastFailurePropagatesAfterOneBackoff ==
    /\ Cardinality(SleepIndices) <= 1
    /\ \A i \in SleepIndices :
           i = 2 /\ trace[1].ev = "generate" /\ FailedReply(trace[1].out)
    /\ AllAttemptsFailed =>
           Len(trace) = 3 /\ trace[2].ev = "sleep" /\ trace[3].ev = "generate"
    /\ (AllAttemptsFailed /\ (pc = "except" \/ ChatDone)) =>
           /\ exception.attempt = 1
           /\ exception.type = IF trace[3].out = Raises THEN "Exception" ELSE "ValueError"
           /\ ChatDone => outcome = "raised"

C8_Witness ==
    /\ ChatDone /\ outcome = "raised" /\ AllAttemptsFailed
    /\ trace[1].out = Raises /\ trace[3].out = EmptyText
    /\ exception.type = "ValueError"

\* C9: no two results returned by the same agent carry the same
\* metadata.execution_id.
C9_ExecutionIdsNeverReused ==
    /\ ~id_reused
    /\ (pc = "done" /\ outcome = "returned") =>
           result["metadata"].execution_id \in issued_ids[agent]

C9_Witness ==
    /\ ChatDone /\ outcome = "returned"
    /\ Cardinality(issued_ids[Chat]) = 2
    /\ completed[Chat].failure = 1

\* the closed form of the fallback price: the condition multipliers as the
\* claim lists them, in hundredths
ClaimedConditionMultiplier(c) ==
    CASE c = "Like New" -> 85
      [] c = "Good" -> 70
      [] c = "Fair" -> 55

\* asking_price x (1 - rate)^age x condition x brand x location, as the
\* numerator of a fraction over 100^(age_months + 3)
ClosedFormNumerator(d) ==
    BigMulSmall(
        BigMulSmall(
            BigMulSmall(
                BigMulPow(BigFromNat(d["asking_price"].n),
                          100 - Get(depreciation_rates, d["category"], 3),
                          d["age_months"].n),
                ClaimedConditionMultiplier(d["condition"].s)),
            Get(brand_multipliers, d["brand"], 100)),
        Get(location_multipliers, d["location"], 100))

BigLeq(a, b) == ~BigLess(b, a)

\* the validated requests of the model whose age and price are integers
NumericValidInputs ==
    { d \in CompletePriceInputs :
        /\ Price_validate_input(d).ok
        /\ d["age_months"].ty = "int"
        /\ d["asking_price"].ty = "int" }

\* for each of them the closed form x 0.85 and x 1.15 as fractions low / den
\* and high / den, evaluated once
ClosedForm ==
    [d \in NumericValidInputs |->
        [low |-> BigMulSmall(ClosedFormNumerator(d), 85),
         high |-> BigMulSmall(ClosedFormNumerator(d), 115),
         den |-> BigPow(100, d["age_months"].n + 4)]]

\* m = num / den truncated toward zero:  m <= num / den < m + 1
IsTruncated(m, num, den) ==
    /\ m >= 0
    /\ BigLeq(BigMul(BigFromNat(m), den), num)
    /\ BigLess(num, BigMul(BigFromNat(m + 1), den))

\* m = num / den rounded to the nearest integer (a tie may go either way):
\* 2m - 1 <= 2 num / den <= 2m + 1
IsNearest(m, num, den) ==
    /\ m >= 0
    /\ m > 0 => BigLeq(BigMul(BigFromNat(2 * m - 1), den), BigMulSmall(num, 2))
    /\ BigLeq(BigMulSmall(num, 2), BigMul(BigFromNat(2 * m + 1), den))

\* a price call on a validated request with integer age and price, ended
\* after the gateway failed on every call
FallbackAfterGatewayFailure ==
    /\ PriceDone
    /\ validation = "passed"
    /\ AllAttemptsFailed
    /\ data["age_months"].ty = "int"
    /\ data["asking_price"].ty = "int"

ThreadIds == {1, 2}

\* the call of thread t: not made yet, its position in process, what its
\* read of a counter gave, whether its try block succeeded, the value its own
\* increment of execution_count stored (0 before it) and the execution_id of
\* the metadata of its result when that is a count (0 when there is none)
IdleThread(a) == [agent |-> a, pc |-> "idle", read |-> 0, succeeded |-> "pending",
                  own |-> 0, id |-> 0]

RaceInit ==
    /\ Constructed
    /\ threads \in [ThreadIds -> { IdleThread(a) : a \in Agents }]
    /\ gateway = <<>>
    /\ earlier = <<>>

racevars == <<df, uuid_counter, pc, callvars, calls, trace, validation, parsing, completed,
              exec_at_call, issued_ids, id_reused, gateway, earlier>>

\* the thread enters process(data)
Begin(t) ==
    /\ threads[t].pc = "idle"
    /\ threads' = [threads EXCEPT ![t].pc = IF threads[t].agent = Chat THEN "read_execution_count"
                                            ELSE "try"]
    /\ UNCHANGED <<execution_count, success_count, racevars>>

\* self.execution_count += 1: the read
ReadExecutionCount(t) ==
    /\ threads[t].pc = "read_execution_count"
    /\ threads' = [threads EXCEPT ![t].read = execution_count[threads[t].agent],
                                  ![t].pc = "write_execution_count"]
    /\ UNCHANGED <<execution_count, success_count, racevars>>

\* variant of WriteExecutionCount that stores the value read without adding one
WriteExecutionCount_StoresValueRead(t) ==
    /\ threads[t].pc = "write_execution_count"
    /\ execution_count' = [execution_count EXCEPT ![threads[t].agent] = threads[t].read]
    /\ threads' = [threads EXCEPT ![t].own = threads[t].read,
                                  ![t].pc =
                       IF threads[t].agent = Chat THEN "try"
                       ELSE IF threads[t].succeeded = "yes" THEN "read_success_count"
                       ELSE "done"]
    /\ UNCHANGED <<success_count, racevars>>

\* self.execution_count += 1: the write of the value read, plus one
WriteExecutionCount(t) ==
    /\ threads[t].pc = "write_execution_count"
    /\ execution_count' = [execution_count EXCEPT ![threads[t].agent] = threads[t].read + 1]
    /\ threads' = [threads EXCEPT ![t].own = threads[t].read + 1,
                                  ![t].pc =
                       IF threads[t].agent = Chat THEN "try"
                       ELSE IF threads[t].succeeded = "yes" THEN "read_success_count"
                       ELSE "done"]
    /\ UNCHANGED <<success_count, racevars>>

\* the try block up to the counting: validation, generation and parsing
\* succeed, or one of them raises
Try(t, ok) ==
    /\ threads[t].pc = "try"
    /\ threads' = [threads EXCEPT ![t].succeeded = IF ok THEN "yes" ELSE "no",
                                  ![t].pc = IF threads[t].agent = Price
                                            THEN "read_execution_count"
                                            ELSE IF ok THEN "read_success_count" ELSE "done"]
    /\ UNCHANGED <<execution_count, success_count, racevars>>

\* self.success_count += 1: the read
ReadSuccessCount(t) ==
    /\ threads[t].pc = "read_success_count"
    /\ threads' = [threads EXCEPT ![t].read = success_count[threads[t].agent],
                                  ![t].pc = "write_success_count"]
    /\ UNCHANGED <<execution_count, success_count, racevars>>

\* self.success_count += 1: the write.  BaseAgent.process then builds the
\* metadata; PriceSuggestorAgent.process takes a uuid4 and returns
WriteSuccessCount(t) ==
    /\ threads[t].pc = "write_success_count"
    /\ success_count' = [success_count EXCEPT ![threads[t].agent] = threads[t].read + 1]
    /\ threads' = [threads EXCEPT ![t].pc = IF threads[t].agent = Chat
                                            THEN "read_execution_id" ELSE "done"]
    /\ UNCHANGED <<execution_count, racevars>>

\* 'execution_id': self.execution_count, line 63: the attribute is read
\* again when the metadata is built; the call then returns
ReadExecutionId(t) ==
    /\ threads[t].pc = "read_execution_id"
    /\ threads' = [threads EXCEPT ![t].id = execution_count[threads[t].agent],
                                  ![t].pc = "done"]
    /\ UNCHANGED <<execution_count, success_count, racevars>>

RaceNext ==
    \E t \in ThreadIds :
        \/ Begin(t)
        \/ ReadExecutionCount(t)
        \/ WriteExecutionCount(t)
        \/ \E ok \in BOOLEAN : Try(t, ok)
        \/ ReadSuccessCount(t)
        \/ WriteSuccessCount(t)
        \/ ReadExecutionId(t)

RaceSpec == RaceInit /\ [][RaceNext]_vars

(***************************************************************************)
(* The pure functions on their own: one call of _detect_fraud_indicators   *)
(* on a request and a loaded frame.                                        *)
(***************************************************************************)
\* a frame read from a data file: three Mobile items at one price (standard
\* deviation 0) and single Books and Camera items (standard deviation NaN)
FlatMarket ==
    << Item("Mobile", "Apple", "Good", 12, 20000),
       Item("Mobile", "Acme", "Fair", 30, 20000),
       Item("Mobile", "Samsung", "Good", 6, 20000),
       Item("Books", "Acme", "Good", 12, 500),
       Item("Camera", "Sony", "Good", 12, 30000) >>

FraudDatasets == {FallbackData, FlatMarket}

\* requests on every side of each of the five conditions, and two on which
\* the function raises inside its try block
FraudInputs ==
    { PriceData(cat, brand, cond, IntV(age), IntV(price), "Goa") :
          cat \in {"Mobile", "Books"}, brand \in {"Apple", "Acme"},
          cond \in {"Like New", "Fair"}, age \in {24, 37, 121},
          price \in {4999, 20000, 34999, 60000} }
    \cup { Without(PriceData("Mobile", "Apple", "Fair", IntV(121), IntV(4999), "Goa"), "brand"),
           PriceData("Mobile", "Apple", "Fair", IntV(121), StrV("abc"), "Goa") }

\* mappings for ChatModeratorAgent._validate_input: those of ChatInputs, and
\* messages at the length limit with blanks at their ends, blank messages and
\* messages that are not text
ValidationInputs ==
    ChatInputs
    \cup { [message |-> StrV(Chars(MaxMessageLen - 2, "x") \o <<" ", "\n">>)],
           [message |-> StrV(<<" ">> \o Chars(MaxMessageLen - 1, "x") \o <<" ">>)],
           [message |-> StrV(Chars(MaxMessageLen - 1, "x"))],
           [message |-> StrV(<<"\t">>)],
           [message |-> StrV(Chars(5, " "))],
           [message |-> None],
           [message |-> ListV(<<StrV(<<"h", "i">>)>>)],
           [context |-> StrV(<<"h", "i">>)] }

TenDigits == <<"9", "8", "7", "6", "5", "4", "3", "2", "1", "0">>

\* what can stand before and after a run of digits in a message
Before ==
    { <<>>, <<"a">>, <<" ">>, <<".">>, <<"-">>, <<"+">>, <<"_">>, <<"1", "a">>,
      <<"1", ".">>, <<"1", " ">>, <<"1", "-">>, <<"1", "+">>, <<"9", "1">>, <<"+", "9", "1", " ">> }
After ==
    { <<>>, <<"a">>, <<" ">>, <<".">>, <<"-">>, <<"_">>, <<"a", "1">>, <<".", "1">>,
      <<" ", "1">>, <<"-", "1">> }

PhoneTexts ==
    { pre \o TenDigits \o post : pre \in Before, post \in After }
    \cup { pre \o SubSeq(TenDigits, 1, 5) \o sep \o SubSeq(TenDigits, 6, 10) \o post :
               pre \in {<<>>, <<"a">>}, sep \in {<<" ">>, <<"-">>, <<".">>, <<"a">>},
               post \in {<<>>, <<"1">>} }
    \cup { SubSeq(TenDigits, 1, 3) \o sep \o SubSeq(TenDigits, 4, 6) \o sep
               \o SubSeq(TenDigits, 7, 10) : sep \in {<<" ">>, <<"-">>, <<".">>} }

UpperChar(c) ==
    IF \E k \in DOMAIN LowerCase : c = LowerCase[k]
    THEN UpperCase[CHOOSE k \in DOMAIN LowerCase : c = LowerCase[k]]
    ELSE c

\* the word in lower case, in upper case, or with a capital first letter
Cased(w, mode) ==
    [i \in 1..Len(w) |->
        IF mode = "upper" \/ (mode = "title" /\ i = 1) THEN UpperChar(w[i]) ELSE w[i]]

KeywordTexts ==
    { pre \o Cased(w, mode) \o <<" ", "o", "k">> :
          pre \in {<<>>, <<"x">>},
          w \in { abusive_keywords[k] : k \in DOMAIN abusive_keywords }
                \cup { external_platforms[k] : k \in DOMAIN external_platforms },
          mode \in {"lower", "upper", "title"} }

\* the messages the specification names, and two others
SampleMessages ==
    << <<"C", "a", "l", "l", " ", "m", "e", " ", "a", "t", " ", "9", "8", "7", "6",
         "5", "4", "3", "2", "1", "0">>,
       <<"T", "h", "i", "s", " ", "i", "s", " ", "a", " ", "s", "c", "a", "m", ",",
         " ", "h", "u", "r", "r", "y", " ", "a", "n", "d", " ", "p", "a", "y", " ",
         "a", "d", "v", "a", "n", "c", "e">>,
       <<"D", "M", " ", "m", "e", " ", "o", "n", " ", "w", "h", "a", "t", "s", "a",
         "p", "p">>,
       <<"I", "s", " ", "t", "h", "i", "s", " ", "s", "t", "i", "l", "l", " ", "a",
         "v", "a", "i", "l", "a", "b", "l", "e", "?">>,
       <<"s", "e", "l", "l", "i", "n", "g", " ", "2", " ", "i", "t", "e", "m", "s",
         " ", "f", "o", "r", " ", "5", "0", "0">>,
       <<"R", "s", "5", "0", "0", "/", "9", "8", "7", "6", "5", "4", "3", "2", "1",
         "0">> >>

\* the messages of the pre-analysis
PreAnalysisInputs ==
    { [message |-> StrV(m)] :
          m \in PhoneTexts \cup KeywordTexts
                \cup { SampleMessages[k] : k \in DOMAIN SampleMessages }
                \cup { <<"h", "i">>, <<"S", "c", " ", "a", "m">>, <<"1", "2", "3">> } }

\* a frame with two items of one category and brand, 36 months apart
AgedMarket ==
    << Item("Mobile", "Apple", "Good", 12, 30000),
       Item("Mobile", "Apple", "Fair", 48, 15000),
       Item("Mobile", "Samsung", "Good", 12, 25000),
       Item("Laptop", "Dell", "Good", 24, 40000),
       Item("Camera", "Sony", "Good", 12, 30000) >>

AnalysisFrames == FraudDatasets \cup {AgedMarket}

\* requests for _analyze_market: categories and brands present in and absent
\* from the frames, ages within and beyond the tolerance of the items' ages
AnalysisInputs ==
    { PriceData(cat, brand, "Good", IntV(age), IntV(20000), "Goa") :
          cat \in {"Mobile", "Laptop", "Books", "Toys"},
          brand \in {"Apple", "Dell", "Acme"},
          age \in {0, 24, 36, 37, 60} }

\* a frame of n rows equal to x
RECURSIVE Rows(_, _)
Rows(x, n) == IF n = 0 THEN <<>> ELSE <<x>> \o Rows(x, n - 1)

\* frames in which a Mobile/Apple request has 5, 6, 10 and 11 comparable items
ConfidenceFrames ==
    FraudDatasets
    \cup { Rows(Item("Mobile", "Apple", "Good", 24, 35000), n) : n \in {5, 6, 10, 11} }

\* requests on every side of the brand, age and completeness conditions, and
\* three on which the function raises inside its try block
ConfidenceInputs ==
    { With(PriceData(cat, brand, "Good", age, IntV(20000), "Goa"), "title", title) :
          cat \in {"Mobile", "Books"}, brand \in {"Apple", "Acme", "default"},
          age \in {IntV(0), IntV(24), IntV(60), IntV(61), IntV(0 - 1), NaN},
          title \in {StrV("iPhone 12"), StrV("")} }
    \cup { Without(SamplePriceInput, "brand"),
           With(SamplePriceInput, "age_months", StrV("24")),
           With(SamplePriceInput, "age_months", None) }

PureInit ==
    /\ execution_count = NoStats
    /\ success_count = NoStats
    /\ uuid_counter = 0
    /\ attempt = 0
    /\ last_exception = None
    /\ response = None
    /\ exception = None
    /\ result = None
    /\ outcome = "none"
    /\ calls = 0
    /\ trace = <<>>
    /\ validation = "none"
    /\ parsing = "none"
    /\ completed = [a \in Agents |-> [success |-> 0, failure |-> 0]]
    /\ exec_at_call = 0
    /\ issued_ids = [a \in Agents |-> {}]
    /\ id_reused = FALSE
    /\ threads = <<>>
    /\ gateway = <<>>
    /\ earlier = <<>>
    /\ \/ /\ pc = "detect_fraud"
          /\ agent = Price
          /\ data \in FraudInputs
          /\ df \in FraudDatasets
       \/ /\ pc = "validate_message"
          /\ agent = Chat
          /\ data \in ValidationInputs
          /\ df = "None"
       \/ /\ pc = "pre_analysis"
          /\ agent = Chat
          /\ data \in PreAnalysisInputs
          /\ df = "None"
       \/ /\ pc = "confidence"
          /\ agent = Price
          /\ data \in ConfidenceInputs
          /\ df \in ConfidenceFrames
       \/ /\ pc = "analyze_market"
          /\ agent = Price
          /\ data \in AnalysisInputs
          /\ df \in AnalysisFrames
       \/ /\ pc = "mock_generate"
          /\ agent \in Agents
          /\ data \in { d \in Inputs(agent) : validate_input(agent, d).ok }
          /\ df = "None"

\* self._detect_fraud_indicators(data), the frame being loaded
DetectFraud ==
    /\ pc = "detect_fraud"
    /\ result' = detect_fraud_indicators(load_data(FallbackData), data)
    /\ pc' = "detect_fraud_returned"
    /\ UNCHANGED <<auxvars, execution_count, success_count, df, uuid_counter, agent, data,
                   attempt, last_exception, response, exception, outcome, calls, trace,
                   validation, parsing, completed, exec_at_call, issued_ids, id_reused>>

\* ChatModeratorAgent._validate_input(data)
ValidateMessage ==
    /\ pc = "validate_message"
    /\ LET r == Chat_validate_input(data) IN
       /\ validation' = IF r.ok THEN "passed" ELSE "failed"
       /\ exception' = IF r.ok THEN None ELSE r.exc
    /\ pc' = "validate_message_returned"
    /\ UNCHANGED <<auxvars, execution_count, success_count, df, uuid_counter, agent, data,
                   attempt, last_exception, response, result, outcome, calls, trace,
                   parsing, completed, exec_at_call, issued_ids, id_reused>>

\* ChatModeratorAgent._generate_prompt, lines 50-56: the three detections
PreAnalyze ==
    /\ pc = "pre_analysis"
    /\ result' = [phone_detected |-> detect_phone_number(data["message"].s),
                  abusive_detected |-> detect_abusive_content(data["message"].s),
                  external_platform_detected |->
                      detect_external_platforms(data["message"].s)]
    /\ pc' = "pre_analysis_returned"
    /\ UNCHANGED <<auxvars, execution_count, success_count, df, uuid_counter, agent, data,
                   attempt, last_exception, response, exception, outcome, calls, trace,
                   validation, parsing, completed, exec_at_call, issued_ids, id_reused>>

\* self._calculate_confidence_score(data, self._analyze_market(data)), the
\* frame being loaded
CalculateConfidence ==
    /\ pc = "confidence"
    /\ result' = [confidence |->
                      calculate_confidence_score(
                          data, analyze_market_similar(load_data(FallbackData), data))]
    /\ pc' = "confidence_returned"
    /\ UNCHANGED <<auxvars, execution_count, success_count, df, uuid_counter, agent, data,
                   attempt, last_exception, response, exception, outcome, calls, trace,
                   validation, parsing, completed, exec_at_call, issued_ids, id_reused>>

\* the offline backend answers the prompt built for validated data, and
\* _parse_response reads the answer
MockGenerate ==
    /\ pc = "mock_generate"
    /\ LET text == MockLLMClient_generate(generate_prompt(agent, data))
           r == parse_response(agent, text)
       IN /\ response' = text
          /\ parsing' = IF r.ok THEN "passed" ELSE "failed"
          /\ result' = IF r.ok THEN r.v ELSE None
          /\ exception' = IF r.ok THEN None ELSE r.exc
    /\ pc' = "mock_returned"
    /\ UNCHANGED <<auxvars, execution_count, success_count, df, uuid_counter, agent, data,
                   attempt, last_exception, outcome, calls, trace, validation, completed,
                   exec_at_call, issued_ids, id_reused>>

\* self._analyze_market(data), the frame being loaded
AnalyzeMarket ==
    /\ pc = "analyze_market"
    /\ result' = analyze_market(load_data(FallbackData), data)
    /\ pc' = "analyze_market_returned"
    /\ UNCHANGED <<auxvars, execution_count, success_count, df, uuid_counter, agent, data,
                   attempt, last_exception, response, exception, outcome, calls, trace,
                   validation, parsing, completed, exec_at_call, issued_ids, id_reused>>

PureNext ==
    \/ AnalyzeMarket
    \/ DetectFraud
    \/ ValidateMessage
    \/ PreAnalyze
    \/ CalculateConfidence
    \/ MockGenerate

PureSpec == PureInit /\ [][PureNext]_vars

\* the conditions that hold and the score returned, for each frame and each
\* request on which nothing raises, evaluated once
FraudTable ==
    [items \in FraudDatasets |->
        [d \in { x \in FraudInputs : ~fraud_detection_raises(items, x) } |->
            [conds |-> FraudConditions(items, d),
             score |-> detect_fraud_indicators(items, d).fraud_score]]]

\* the weights of the five conditions as the claim lists them, in hundredths
ClaimedFraudWeights == <<30, 20, 10, 40, 20>>

\* the requests whose triggered conditions are those of the request of the
\* call without condition i, which holds for the request of the call
WithoutCondition(i) ==
    { d \in DOMAIN FraudTable[df] :
        /\ FraudTable[df][data].conds[i]
        /\ ~FraudTable[df][d].conds[i]
        /\ \A j \in 1..5 : j # i => FraudTable[df][d].conds[j] = FraudTable[df][data].conds[j] }

FraudReturned == pc = "detect_fraud_returned" /\ data \in DOMAIN FraudTable[df]

\* C11, as amended: on requests on which no step raises, one more condition
\* raises the returned fraud_score by the condition's weight up to the
\* rounding of double arithmetic (the score is within one unit in the last
\* place of the decimal sum of the weights); the score strictly increases and
\* never exceeds 1.0.
C11_FraudScoreGrowsByWeightUpToRounding ==
    FraudReturned =>
        /\ ~FloatLess(NumV(100), result.fraud_score)
        /\ result.fraud_score.ulps \in {0 - 1, 0, 1}
        /\ \A i \in 1..5 : \A d \in WithoutCondition(i) :
               /\ FloatLess(FraudTable[df][d].score, result.fraud_score)
               /\ result.fraud_score.x100 = FraudTable[df][d].score.x100 + ClaimedFraudWeights[i]

\* C11, as stated: one more condition raises the returned fraud_score by
\* exactly the condition's weight: score_with = score_without + weight.
C11_FraudScoreGrowsByExactWeight ==
    FraudReturned =>
        /\ ~FloatLess(NumV(100), result.fraud_score)
        /\ \A i \in 1..5 : \A d \in WithoutCondition(i) :
               /\ FloatLess(FraudTable[df][d].score, result.fraud_score)
               /\ result.fraud_score = FloatAdd(FraudTable[df][d].score, ClaimedFraudWeights[i])

\* low price, old age and premium brand together (0.8), against the same
\* request at a reasonable age (0.7)
C11_Witness ==
    /\ FraudReturned
    /\ df = FallbackData
    /\ data = PriceData("Mobile", "Apple", "Fair", IntV(121), IntV(4999), "Goa")
    /\ result.fraud_score = NumV(80)
    /\ PriceData("Mobile", "Apple", "Fair", IntV(24), IntV(4999), "Goa") \in WithoutCondition(3)

\* every character of s is whitespace (so s is empty after trimming)
AllSpace(s) == \A i \in 1..Len(s) : s[i] \in {" ", "\n", "\t"}

\* the mapping has no message, or one that is not text, or is blank, or is
\* longer than 1000 characters
MessageRejectable(d) ==
    \/ "message" \notin DOMAIN d
    \/ d["message"].ty # "str"
    \/ AllSpace(d["message"].s)
    \/ Len(d["message"].s) > 1000

\* C12: ChatModeratorAgent._validate_input rejects, with a ValueError, a
\* mapping whose message is missing, is not text, is empty or whitespace-only
\* after trimming, or is longer than 1000 characters, and accepts every other
\* mapping; 1000 characters pass, 1001 fail.
C12_MessageValidationAcceptsUpToLimit ==
    pc = "validate_message_returned" =>
        /\ validation = (IF MessageRejectable(data) THEN "failed" ELSE "passed")
        /\ validation = "failed" <=> exception # None
        /\ validation = "failed" => exception.type = "ValueError"
        /\ data = [message |-> StrV(Chars(1001, "x"))] => validation = "failed"

C12_Witness ==
    /\ pc = "validate_message_returned"
    /\ data = [message |-> StrV(Chars(1000, "x"))]
    /\ validation = "passed"
    /\ exception = None

\* the message has a run of exactly 10 digits with no digit next to it
HasTenDigitRun(m) ==
    \E i \in 1..(Len(m) - 9) :
        /\ \A j \in i..(i + 9) : IsDigit(m[j])
        /\ i > 1 => ~IsDigit(m[i - 1])
        /\ i + 9 < Len(m) => ~IsDigit(m[i + 10])

\* the message has one of the keywords, in any letter case
HasKeyword(m, keywords) ==
    \E k \in DOMAIN keywords : \E i \in 0..(Len(m) - Len(keywords[k])) :
        \A j \in 1..Len(keywords[k]) : LowerChar(m[i + j]) = keywords[k][j]

\* C13: in the pre-analysis, a message with a run of exactly 10 digits
\* delimited by non-digits gives phone_detected; a message with an abuse
\* keyword in any letter case gives abusive_detected; a message with an
\* external-platform keyword in any letter case gives
\* external_platform_detected; a message with no digit and no keyword gives
\* none of the three.
C13_PreAnalysisFlagsFollowMessage ==
    pc = "pre_analysis_returned" =>
        LET m == data["message"].s IN
        /\ HasTenDigitRun(m) => result.phone_detected
        /\ HasKeyword(m, abusive_keywords) => result.abusive_detected
        /\ HasKeyword(m, external_platforms) => result.external_platform_detected
        /\ ( /\ \A i \in DOMAIN m : ~IsDigit(m[i])
             /\ ~HasKeyword(m, abusive_keywords)
             /\ ~HasKeyword(m, external_platforms) ) =>
               /\ ~result.phone_detected
               /\ ~result.abusive_detected
               /\ ~result.external_platform_detected

\* C14: for either agent, a call with an input that was processed before,
\* against a gateway that is a function of the prompt, gives the caller what
\* the first call gave, the execution_id (and the time taken) apart, whatever
\* calls were made before or in between.
C14_RepeatedCallGivesSamePayload ==
    (pc = "done" /\ earlier[<<agent, data>>] # None) => Observed = earlier[<<agent, data>>]

\* a price call that returns for the second time, one chat call made as well
C14_Witness ==
    /\ PriceDone /\ outcome = "returned" /\ parsing = "passed"
    /\ earlier[<<agent, data>>] # None
    /\ calls = 3
    /\ completed[Chat].success = 1
    /\ execution_count[Price] = 2

\* C15: every result a price call returns, on each of its three tiers, has a
\* fraud_analysis with fraud_score in [0,1], a sequence fraud_indicators and
\* risk_level low, medium or high.
C15_EveryPriceResultHasFraudAnalysis ==
    (PriceDone /\ outcome = "returned") =>
        /\ "fraud_analysis" \in DOMAIN result
        /\ InUnitInterval(result["fraud_analysis"].fraud_score)
        /\ DOMAIN result["fraud_analysis"].fraud_indicators
               = 1..Len(result["fraud_analysis"].fraud_indicators)
        /\ result["fraud_analysis"].risk_level \in {"low", "medium", "high"}

\* validation passed, the gateway gave a non-empty text within 2 attempts and
\* the text passed _parse_response
PriceAllStepsPassed ==
    /\ validation = "passed"
    /\ Cardinality(GenerateIndices) <= 2
    /\ \E i \in GenerateIndices : ~FailedReply(trace[i].out)
    /\ parsing = "passed"

\* C16: a price call returns the LLM-assisted result exactly when validation,
\* generation and parsing all succeeded; otherwise the mathematical fallback
\* result with confidence 0.6 when the fallback arithmetic succeeds; otherwise
\* the emergency result with confidence 0.3 and fairly_priced.  In particular
\* an input that fails validation still gets a result.
C16_PriceCallDegradesThroughThreeTiers ==
    PriceDone =>
        /\ outcome = "returned"
        /\ PriceAllStepsPassed <=> result["metadata"].agent_type = "price_suggestor"
        /\ (~PriceAllStepsPassed /\ fallback_try(data).ok) =>
               /\ result["metadata"].agent_type = "price_suggestor_fallback"
               /\ result["confidence"] = NumV(60)
        /\ (~PriceAllStepsPassed /\ ~fallback_try(data).ok) =>
               /\ result["confidence"] = NumV(30)
               /\ result["market_position"] = StrV("fairly_priced")

\* C17: in a price call, once a step has failed and the fallback path is
\* entered the gateway is not invoked again, and the gateway is invoked at
\* most 2 times in the call.
C17_NoGatewayCallOnFallbackPath ==
    /\ [](agent = Price => Cardinality(GenerateIndices) <= 2)
    /\ [][(agent = Price /\ pc = "except") =>
             (pc' = "done" /\ trace' = trace)]_vars
    /\ [][(agent = Price /\ pc = "done" /\ trace' # trace) => trace' = <<>>]_vars

\* the mathematical fallback returned after two failed invocations
C17_Witness ==
    /\ PriceDone /\ outcome = "returned"
    /\ result["metadata"].agent_type = "price_suggestor_fallback"
    /\ Cardinality(GenerateIndices) = 2
    /\ trace[3].out = BlankText

ThreadsOn(a) == { t \in ThreadIds : threads[t].agent = a }
SucceededOn(a) == { t \in ThreadsOn(a) : threads[t].succeeded = "yes" }
AllThreadsDone == \A t \in ThreadIds : threads[t].pc = "done"

\* C18: the counters are updated by unprotected read-modify-write steps.
\* When the calls interleave, each write stores what its thread read plus
\* one, whatever the counter holds by then; so after all calls have completed
\* each counter is at least 1 and at most the number of increments made, and
\* nothing more is guaranteed: an update can be lost, and success_count can
\* exceed execution_count.
C18_CountersBoundedButUnprotected ==
    /\ \A t \in ThreadIds :
           threads[t].pc \in {"write_execution_count", "write_success_count"} =>
               threads[t].read <= (IF threads[t].pc = "write_execution_count"
                                   THEN execution_count[threads[t].agent]
                                   ELSE success_count[threads[t].agent])
    /\ AllThreadsDone =>
           \A a \in Agents :
               /\ execution_count[a] <= Cardinality(ThreadsOn(a))
               /\ ThreadsOn(a) # {} => execution_count[a] >= 1
               /\ success_count[a] <= Cardinality(SucceededOn(a))
               /\ SucceededOn(a) # {} => success_count[a] >= 1

\* two calls made on one instance and completed, one execution counted (a lost
\* update) and two successes
C18_Witness ==
    /\ AllThreadsDone
    /\ \A t \in ThreadIds : threads[t].agent = Chat
    /\ execution_count[Chat] = 1
    /\ execution_count[Chat] < Cardinality(ThreadIds)
    /\ success_count[Chat] = 2
    /\ success_count[Chat] > execution_count[Chat]

ExecutionId == result["metadata"].execution_id

LLMPathReturned == PriceDone /\ outcome = "returned" /\ parsing = "passed"
parsed_confidence == Price_parse_response(response).v["confidence"]
enhanced_confidence == calculate_confidence_score(data, analyze_market_similar(df, data))

ClaimedTier(n) == IF n > 10 THEN 30 ELSE IF n > 5 THEN 20 ELSE IF n > 0 THEN 10 ELSE 0
ClaimedBrandBonus(d) ==
    IF "brand" \in DOMAIN d /\ InStrings(d["brand"], DOMAIN brand_multipliers) THEN 10 ELSE 0
ClaimedAgeBonus(d) ==
    IF /\ "age_months" \in DOMAIN d
       /\ d["age_months"].ty = "int"
       /\ 0 <= d["age_months"].n /\ d["age_months"].n <= 60
    THEN 10 ELSE 0
ClaimedCompletenessBonus(d) ==
    IF \A f \in {"title", "category", "brand", "condition", "age_months", "asking_price",
                 "location"} : f \in DOMAIN d /\ Truthy(d[f])
    THEN 10 ELSE 0
ClaimedConfidence(d, n) ==
    LET sum == 50 + ClaimedTier(n) + ClaimedBrandBonus(d) + ClaimedAgeBonus(d)
               + ClaimedCompletenessBonus(d)
    IN IF sum > 100 THEN 100 ELSE sum

\* v is the double sum whose decimal value is c hundredths
IsDoubleSumOf(v, c) == v.ty = "num" /\ v.x100 = c /\ v.ulps \in {0 - 1, 0, 1}

ConfidenceReturned == pc = "confidence_returned"
ComparableItems == Len(analyze_market_similar(df, data))

\* C21, as amended: when no step of _calculate_confidence_score raises, it
\* returns min(1.0, 0.5 + t + b + a + c) as a sum of doubles, with t the
\* tier of the number of comparable items, b = 0.1 iff the brand is a key of
\* the brand table, a = 0.1 iff 0 <= age_months <= 60 and c = 0.1 iff all
\* seven fields are present and truthy; when a step raises it returns 0.5
\* whatever the additions are; the result is always in [0.5, 1.0].
C21_ConfidenceIsClampedSumUnlessRaised ==
    ConfidenceReturned =>
        /\ ~FloatLess(result.confidence, NumV(50))
        /\ ~FloatLess(NumV(100), result.confidence)
        /\ IF confidence_raises(data)
           THEN result.confidence = NumV(50)
           ELSE IsDoubleSumOf(result.confidence, ClaimedConfidence(data, ComparableItems))

\* C21 as stated: _calculate_confidence_score returns
\* min(1.0, 0.5 + t + b + a + c) on every input.
C21_ConfidenceIsClampedSum ==
    ConfidenceReturned =>
        IsDoubleSumOf(result.confidence, ClaimedConfidence(data, ComparableItems))

\* eleven comparable items, a known brand, an age of 60 months and complete
\* data: the sum 1.1 is clamped to 1.0
C21_Witness ==
    /\ ConfidenceReturned
    /\ ComparableItems = 11
    /\ data["age_months"] = IntV(60)
    /\ ClaimedBrandBonus(data) + ClaimedAgeBonus(data) + ClaimedCompletenessBonus(data) = 30
    /\ result.confidence = NumV(100)

\* the number of conditions of the request that hold
RECURSIVE CountTrue(_)
CountTrue(conds) ==
    IF conds = <<>> THEN 0 ELSE (IF Head(conds) THEN 1 ELSE 0) + CountTrue(Tail(conds))

DetectFraudReturned == pc = "detect_fraud_returned"

\* C22: _detect_fraud_indicators returns risk_level 'high' iff the score is
\* > 0.6, 'medium' iff it is > 0.3 and <= 0.6, and 'low' otherwise; there
\* are as many fraud_indicators as triggered conditions; and a failure inside
\* the computation yields fraud_score 0, no indicators and risk_level 'low'.
C22_RiskLevelFollowsScore ==
    DetectFraudReturned =>
        IF data \in DOMAIN FraudTable[df]
        THEN /\ result.risk_level = "high" <=> FloatLess(NumV(60), result.fraud_score)
             /\ result.risk_level = "medium" <=>
                    /\ FloatLess(NumV(30), result.fraud_score)
                    /\ ~FloatLess(NumV(60), result.fraud_score)
             /\ result.risk_level \in {"high", "medium", "low"}
             /\ Len(result.fraud_indicators) = CountTrue(FraudTable[df][data].conds)
        ELSE result = [fraud_score |-> NumV(0), fraud_indicators |-> <<>>,
                       risk_level |-> "low"]

\* a single condition of weight 0.3 holds: the score 0.3 is not above the
\* threshold and the level is 'low'
C22_Witness ==
    /\ DetectFraudReturned
    /\ data \in DOMAIN FraudTable[df]
    /\ result.fraud_score = NumV(30)
    /\ Len(result.fraud_indicators) = 1
    /\ result.risk_level = "low"

MathematicalFallbackReturned ==
    /\ PriceDone /\ outcome = "returned"
    /\ result["metadata"].agent_type = "price_suggestor_fallback"

\* C23: in the mathematical fallback result, market_position is
\* 'underpriced' iff asking_price < min, 'overpriced' iff asking_price > max
\* and 'fairly_priced' iff min <= asking_price <= max, min and max being the
\* bounds of the returned range.
C23_FallbackPositionFollowsRange ==
    MathematicalFallbackReturned =>
        LET asking_price == data["asking_price"].n
            min == RangeOf(result)["min"].n
            max == RangeOf(result)["max"].n
            position == result["market_position"].s
        IN /\ position = "underpriced" <=> asking_price < min
           /\ position = "overpriced" <=> asking_price > max
           /\ position = "fairly_priced" <=> (min <= asking_price /\ asking_price <= max)

\* a fallback result whose range lies below the asking price
C23_Witness ==
    /\ MathematicalFallbackReturned
    /\ result["market_position"] = StrV("overpriced")
    /\ data["asking_price"].n > RangeOf(result)["max"].n

\* C24: every result a chat call returns has the six fields, status,
\* severity and action_recommended in their enumerations, a numeric
\* confidence in [0,1] and detected_elements a sequence of strings; and a
\* reply that fails a field or enumeration check makes the call raise.
C24_ModerationResultIsWellFormed ==
    /\ (ChatDone /\ outcome = "returned") =>
           /\ \A i \in DOMAIN ChatRequiredFields : ChatRequiredFields[i] \in DOMAIN result
           /\ InStrings(result["status"],
                        {"safe", "abusive", "phone_detected", "policy_violation"})
           /\ InUnitInterval(result["confidence"])
           /\ InStrings(result["severity"], {"low", "medium", "high"})
           /\ InStrings(result["action_recommended"], {"none", "warn", "block", "review"})
           /\ result["detected_elements"].ty = "list"
           /\ \A i \in DOMAIN result["detected_elements"].items :
                  result["detected_elements"].items[i].ty = "str"
    /\ (ChatDone /\ parsing = "failed") => outcome = "raised"

\* C25: a rejected reply is never retried: in a call of either agent, once
\* the gateway has returned a non-empty reply it is not invoked again in that
\* call, even if _parse_response rejects the reply.
C25_NoInvocationAfterNonEmptyReply ==
    \A i \in GenerateIndices :
        ~FailedReply(trace[i].out) =>
            /\ i = Len(trace)
            /\ response = trace[i].out
            /\ pc \in {"parse", "success", "except", "done"}

\* a first reply that _parse_response rejected: one invocation in the call
C25_Witness ==
    /\ pc = "done" /\ parsing = "failed"
    /\ Cardinality(GenerateIndices) = 1
    /\ Len(trace) = 1
    /\ attempt < max_retries - 1

MockReturned == pc = "mock_returned"

\* C26: the offline backend answers every prompt of the chat agent with the
\* canned moderation response and every prompt of the price agent with the
\* canned pricing response, so that a valid moderation message gets the
\* canned verdict (status safe, confidence 0.9) and nothing is raised.
C26_MockAnswersEachAgentWithItsReply ==
    MockReturned =>
        /\ agent = Price => response = JsonText("bare", MockPriceReply)
        /\ agent = Chat =>
               /\ response = JsonText("bare", MockChatReply)
               /\ parsing = "passed"
               /\ exception = None
               /\ result["status"] = StrV("safe")
               /\ result["confidence"] = NumV(90)

AnalysisReturned == pc = "analyze_market_returned"

\* the items of the frame with the category and the brand of the request,
\* those of them within 12 months of its age, and the items of its category
BrandMatches ==
    LET Keep(x) == x.category = data["category"].s /\ x.brand = data["brand"].s
    IN SelectSeq(df, Keep)
WithinTolerance ==
    LET Keep(x) == /\ x.age_months - data["age_months"].n <= 12
                   /\ data["age_months"].n - x.age_months <= 12
    IN SelectSeq(BrandMatches, Keep)
CategoryMatches ==
    LET Keep(x) == x.category = data["category"].s IN SelectSeq(df, Keep)

\* C27: the comparable items of _analyze_market are the items with the same
\* category and brand within 12 months of age_months when there are any, and
\* otherwise all items of the category; with none, similar_items is empty and
\* avg, min and max are asking_price and its 0.8 and 1.2 multiples; an item
\* of the brand whose age is beyond the tolerance is used only as part of
\* the items of the category.
C27_ComparablesWithinToleranceElseCategory ==
    AnalysisReturned =>
        /\ result.similar_items =
               IF WithinTolerance # <<>> THEN WithinTolerance ELSE CategoryMatches
        /\ result.similar_items = <<>> =>
               /\ result.avg_price = <<data["asking_price"].n, 1>>
               /\ result.min_price = <<data["asking_price"].n * 8, 10>>
               /\ result.max_price = <<data["asking_price"].n * 12, 10>>

\* C28: for every input that passes price validation the mathematical
\* fallback never returns market_position 'underpriced': the returned min is
\* at most asking_price.
C28_ValidatedFallbackNeverUnderpriced ==
    (MathematicalFallbackReturned /\ validation = "passed") =>
        /\ result["market_position"] # StrV("underpriced")
        /\ RangeOf(result)["min"].n <= data["asking_price"].n

\* the largest multipliers of the tables (Like New, Apple, Mumbai) at age 0:
\* min is 0.997 of the asking price
C28_Witness ==
    /\ MathematicalFallbackReturned /\ validation = "passed"
    /\ data["condition"] = StrV("Like New") /\ data["brand"] = StrV("Apple")
    /\ data["location"] = StrV("Mumbai") /\ data["age_months"] = IntV(0)
    /\ 1000 * RangeOf(result)["min"].n >= 995 * data["asking_price"].n
    /\ result["market_position"] = StrV("fairly_priced")

PriceAgentTypes ==
    {"price_suggestor", "price_suggestor_fallback", "price_suggestor_emergency"}

PriceResultReturned == pc = "done" /\ agent = Price /\ outcome = "returned"

\* C29: no result returned by PriceSuggestorAgent.process has agent_type
\* 'emergency_fallback'; every returned agent_type is price_suggestor,
\* price_suggestor_fallback or price_suggestor_emergency.
C29_EmergencyFallbackTypeNeverReturned ==
    PriceResultReturned =>
        /\ result["metadata"].agent_type # "emergency_fallback"
        /\ result["metadata"].agent_type \in PriceAgentTypes

\* the try block of _generate_fallback_pricing failed and its except block
\* answered
C29_Witness ==
    /\ PriceResultReturned
    /\ ~fallback_try(data).ok
    /\ result["metadata"].agent_type = "price_suggestor_emergency"

\* the calls of ChatModeratorAgent that have returned a result
ChatResults ==
    { t \in ThreadsOn(Chat) : threads[t].pc = "done" /\ threads[t].succeeded = "yes" }

\* C30: when two calls of process on one ChatModeratorAgent interleave and
\* both succeed, the execution_id of each result is the value that call's own
\* increment of execution_count stored, and the two ids differ.
C30_InterleavedChatIdsDistinctAndOwn ==
    \A t, u \in ChatResults :
        /\ threads[t].id = threads[t].own
        /\ t # u => threads[t].id # threads[u].id

====
